---- MODULE Spec2Model ----
(***************************************************************************)
(* Network capture and classification in the three Betika scripts:         *)
(*   - BetikaAPIAnalyzer            (src/betika-api-analysis.js)           *)
(*   - BetikaScraper                (src/betika-scraper-standalone.js)     *)
(*   - the Apify actor              (src/unnamed/part_002)                 *)
(* A run executes one of the scripts (variable script).  The browser       *)
(* driver delivers request, response and binding events; every handler of  *)
(* the source is one action, except the asynchronous response handlers,    *)
(* which are split at their await of response.text().                      *)
(* URLs and bodies are strings; String.includes and String.substring are   *)
(* computed on the characters.                                             *)
(***************************************************************************)
EXTENDS Integers, Sequences, FiniteSets, TLC

VARIABLES
    script,                 \* which program this run executes
    events,                 \* the events the driver has delivered, in delivery order
    continued,              \* per delivered event: number of continue() calls on it
    awaiting,               \* response events whose handler awaits response.text()
    networkRequests,        \* BetikaAPIAnalyzer.networkRequests
    apiCalls,               \* BetikaAPIAnalyzer.apiCalls
    externalSources,        \* BetikaAPIAnalyzer.externalSources
    oddsData,               \* BetikaAPIAnalyzer.oddsData
    websocketConnections,   \* BetikaAPIAnalyzer.websocketConnections
    report,                 \* the object returned by generateAnalysisReport
    data,                   \* BetikaScraper.data
    apiEndpoints,           \* BetikaScraper.apiEndpoints
    interceptedRequests,    \* the Apify actor's interceptedRequests
    dataset,                \* the Apify dataset, in pushData order
    pages,                  \* the Apify crawler's handlePageFunction calls, in start order
    run                     \* where the script's main function stands and what it has done

vars == <<script, events, continued, awaiting, networkRequests, apiCalls,
          externalSources, oddsData, websocketConnections, report,
          data, apiEndpoints, interceptedRequests, dataset, pages, run>>

analyzerVars == <<networkRequests, apiCalls, externalSources, oddsData,
                  websocketConnections, report>>
scraperVars == <<data, apiEndpoints>>
apifyVars == <<interceptedRequests, dataset>>

----------------------------------------------------------------------------
(* Bounds and program constants *)

\* number of events the driver delivers in one run
MaxEvents == 2

\* content.substring(0, 1000) in BetikaScraper's response handler
ScraperTextLimit == 1000

\* responseBody.substring(0, 10000) in the Apify actor's response handler
ApifyBodyLimit == 10000

----------------------------------------------------------------------------
(* Strings *)

Min(a, b) == IF a < b THEN a ELSE b

\* String.prototype.includes
Includes(s, needle) ==
    \E i \in 1..(Len(s) - Len(needle) + 1) :
        SubSeq(s, i, i + Len(needle) - 1) = needle

\* String.prototype.substring(0, n)
Substring0(s, n) == SubSeq(s, 1, Min(Len(s), n))

\* s begins with p
StartsWith(s, p) == Len(p) <= Len(s) /\ SubSeq(s, 1, Len(p)) = p

\* s ends with p
EndsWith(s, p) == Len(p) <= Len(s) /\ SubSeq(s, Len(s) - Len(p) + 1, Len(s)) = p

\* the path of url: from the first / after the scheme and host up to the
\* query or fragment
PathOf(url) ==
    LET marks == { i \in 1..Len(url) - 2 : SubSeq(url, i, i + 2) = "://" }
        from == IF marks = {} THEN 1
                ELSE (CHOOSE i \in marks : \A j \in marks : i <= j) + 3
        slashes == { i \in from..Len(url) : SubSeq(url, i, i) = "/" }
        start == IF slashes = {} THEN Len(url) + 1
                 ELSE CHOOSE i \in slashes : \A j \in slashes : i <= j
        ends == { i \in start..Len(url) : SubSeq(url, i, i) \in {"?", "#"} }
        stop == IF ends = {} THEN Len(url)
                ELSE (CHOOSE i \in ends : \A j \in ends : i <= j) - 1
    IN  SubSeq(url, start, stop)

----------------------------------------------------------------------------
(* BetikaAPIAnalyzer helper functions *)

externalProviders ==
    << "sportradar.com", "betradar.com", "lsports.eu",
       "betconstruct.com", "kambi.com", "sbtech.com",
       "pinnacle.com", "oddsapi.io", "the-odds-api.com",
       "api.the-odds-api.com", "odds.com" >>

\* isExternalSource without the test for the site's own domain
isExternalSource_NoOwnDomain(url) ==
    \E k \in 1..Len(externalProviders) : Includes(url, externalProviders[k])

isExternalSource(url) ==
    /\ ~Includes(url, "betika.com")
    /\ \E k \in 1..Len(externalProviders) : Includes(url, externalProviders[k])

\* isAPICall without its '/api/' test
isAPICall_NoApiPath(url) ==
    \/ Includes(url, "/ajax/")
    \/ Includes(url, "odds")
    \/ Includes(url, "json")
    \/ (Includes(url, "betika.com") /\ Includes(url, "sport"))

isAPICall(url) ==
    \/ Includes(url, "/api/")
    \/ Includes(url, "/ajax/")
    \/ Includes(url, "odds")
    \/ Includes(url, "json")
    \/ (Includes(url, "betika.com") /\ Includes(url, "sport"))

\* categorizeRequest with the protocol test moved before the path tests
categorizeRequest_ProtocolFirst(url) ==
    IF Includes(url, "ws://") \/ Includes(url, "wss://") THEN "websocket"
    ELSE IF Includes(url, "/api/") THEN "api"
    ELSE IF Includes(url, "/ajax/") THEN "ajax"
    ELSE IF isExternalSource(url) THEN "external"
    ELSE IF Includes(url, ".js") THEN "javascript"
    ELSE IF Includes(url, ".css") THEN "css"
    ELSE "other"

\* categorizeRequest with both asset extensions reported as 'static'
categorizeRequest_Static(url) ==
    IF Includes(url, "/api/") THEN "api"
    ELSE IF Includes(url, "/ajax/") THEN "ajax"
    ELSE IF Includes(url, "ws://") \/ Includes(url, "wss://") THEN "websocket"
    ELSE IF isExternalSource(url) THEN "external"
    ELSE IF Includes(url, ".js") THEN "static"
    ELSE IF Includes(url, ".css") THEN "static"
    ELSE "other"

\* categorizeRequest with the extension tests moved before the provider test
categorizeRequest_ExtensionFirst(url) ==
    IF Includes(url, "/api/") THEN "api"
    ELSE IF Includes(url, "/ajax/") THEN "ajax"
    ELSE IF Includes(url, "ws://") \/ Includes(url, "wss://") THEN "websocket"
    ELSE IF Includes(url, ".js") THEN "javascript"
    ELSE IF Includes(url, ".css") THEN "css"
    ELSE IF isExternalSource(url) THEN "external"
    ELSE "other"

\* categorizeRequest testing the end of the URL path for the extensions
categorizeRequest_PathExtension(url) ==
    IF Includes(url, "/api/") THEN "api"
    ELSE IF Includes(url, "/ajax/") THEN "ajax"
    ELSE IF Includes(url, "ws://") \/ Includes(url, "wss://") THEN "websocket"
    ELSE IF isExternalSource(url) THEN "external"
    ELSE IF EndsWith(PathOf(url), ".js") THEN "javascript"
    ELSE IF EndsWith(PathOf(url), ".css") THEN "css"
    ELSE "other"

categorizeRequest(url) ==
    IF Includes(url, "/api/") THEN "api"
    ELSE IF Includes(url, "/ajax/") THEN "ajax"
    ELSE IF Includes(url, "ws://") \/ Includes(url, "wss://") THEN "websocket"
    ELSE IF isExternalSource(url) THEN "external"
    ELSE IF Includes(url, ".js") THEN "javascript"
    ELSE IF Includes(url, ".css") THEN "css"
    ELSE "other"

\* identifyProvider without its final return
identifyProvider_NoFallback(url) ==
    IF Includes(url, "sportradar") \/ Includes(url, "betradar") THEN "Sportradar/Betradar"
    ELSE IF Includes(url, "lsports") THEN "LSports"
    ELSE IF Includes(url, "betconstruct") THEN "BetConstruct"
    ELSE IF Includes(url, "kambi") THEN "Kambi"
    ELSE IF Includes(url, "sbtech") THEN "SBTech"
    ELSE IF Includes(url, "odds-api") THEN "The Odds API"
    ELSE "undefined"

\* identifyProvider naming Sportradar alone
identifyProvider_Sportradar(url) ==
    IF Includes(url, "sportradar") THEN "Sportradar"
    ELSE IF Includes(url, "betradar") THEN "Betradar"
    ELSE IF Includes(url, "lsports") THEN "LSports"
    ELSE IF Includes(url, "betconstruct") THEN "BetConstruct"
    ELSE IF Includes(url, "kambi") THEN "Kambi"
    ELSE IF Includes(url, "sbtech") THEN "SBTech"
    ELSE IF Includes(url, "odds-api") THEN "The Odds API"
    ELSE "Unknown Provider"

identifyProvider(url) ==
    IF Includes(url, "sportradar") \/ Includes(url, "betradar") THEN "Sportradar/Betradar"
    ELSE IF Includes(url, "lsports") THEN "LSports"
    ELSE IF Includes(url, "betconstruct") THEN "BetConstruct"
    ELSE IF Includes(url, "kambi") THEN "Kambi"
    ELSE IF Includes(url, "sbtech") THEN "SBTech"
    ELSE IF Includes(url, "odds-api") THEN "The Odds API"
    ELSE "Unknown Provider"

\* the values categorizeRequest can return
Categories == {"api", "ajax", "websocket", "external", "javascript", "css", "other"}

isJSONResponse(contentType) ==
    Includes(contentType, "application/json") \/ Includes(contentType, "text/json")

----------------------------------------------------------------------------
(* JSON text.  JSON.parse and JSON.stringify are tabulated on the bodies   *)
(* the driver delivers in this model: JSONTable maps each body JSON.parse  *)
(* accepts to JSON.stringify of the parsed value; JSON.parse throws on     *)
(* every other body.                                                       *)

OddsBody == "{\"odds\":[1.5,2.1]}"
SpacedBody == "{ \"Match\": 7 }"
StatusBody == "{\"status\":\"ok\"}"
HtmlBody == "<html>odds</html>"
EmptyBody == ""

JSONTable ==
    << <<OddsBody, "{\"odds\":[1.5,2.1]}">>,
       <<SpacedBody, "{\"Match\":7}">>,
       <<StatusBody, "{\"status\":\"ok\"}">> >>

\* JSON.parse(content) does not throw
JSONParses(content) == \E k \in 1..Len(JSONTable) : JSONTable[k][1] = content

\* JSON.stringify(JSON.parse(content)), for content that parses
JSONStringify(content) ==
    LET k == CHOOSE j \in 1..Len(JSONTable) : JSONTable[j][1] = content
    IN  JSONTable[k][2]

isJSONContent(content) == JSONParses(content)

UpperCase == "ABCDEFGHIJKLMNOPQRSTUVWXYZ"
LowerCase == "abcdefghijklmnopqrstuvwxyz"

LowerChar(c) ==
    IF \E k \in 1..26 : SubSeq(UpperCase, k, k) = c
    THEN LET k == CHOOSE j \in 1..26 : SubSeq(UpperCase, j, j) = c
         IN  SubSeq(LowerCase, k, k)
    ELSE c

RECURSIVE toLowerCase(_)
toLowerCase(s) ==
    IF Len(s) = 0 THEN ""
    ELSE LowerChar(SubSeq(s, 1, 1)) \o toLowerCase(SubSeq(s, 2, Len(s)))

oddsKeywords == << "odds", "bet", "match", "team", "league", "sport", "game" >>

\* containsOddsData(JSON.parse(content))
containsOddsData(content) ==
    LET jsonString == toLowerCase(JSONStringify(content))
    IN  \E k \in 1..Len(oddsKeywords) : Includes(jsonString, oddsKeywords[k])

----------------------------------------------------------------------------
(* What the driver delivers *)

Scripts == {"analyzer", "scraper", "apify"}

UrlWssApi == "wss://live.example.com/api/odds"
UrlWss == "wss://push.example.com/feed"
UrlSportradar == "https://api.sportradar.com/odds/v1/match/5"
UrlSportradarApi == "https://api.sportradar.com/api/feed"
UrlBetradar == "https://cdn.betradar.com/widget.js"
UrlPinnacle == "https://pinnacle.com/lines"
UrlScript == "https://www.betika.com/static/app.js"
UrlStyle == "https://www.betika.com/static/site.css"
UrlHome == "https://www.betika.com/en-ke/"
UrlAjax == "https://www.betika.com/ajax/odds/update"
UrlApi == "https://www.betika.com/api/odds/football"

Urls == { UrlWssApi, UrlWss, UrlSportradar, UrlSportradarApi, UrlBetradar,
          UrlPinnacle, UrlScript, UrlStyle, UrlHome, UrlAjax, UrlApi }

\* request.method() of the requests the page makes to url
MethodsOf(url) == IF url = UrlAjax THEN {"POST"} ELSE {"GET"}

\* a body of 10 characters, and bodies around the Apify actor's body limit
Chunk10 == "0123456789"
Chunk100 == Chunk10 \o Chunk10 \o Chunk10 \o Chunk10 \o Chunk10 \o
            Chunk10 \o Chunk10 \o Chunk10 \o Chunk10 \o Chunk10
Chunk1000 == Chunk100 \o Chunk100 \o Chunk100 \o Chunk100 \o Chunk100 \o
             Chunk100 \o Chunk100 \o Chunk100 \o Chunk100 \o Chunk100
Body10000 == Chunk1000 \o Chunk1000 \o Chunk1000 \o Chunk1000 \o Chunk1000 \o
             Chunk1000 \o Chunk1000 \o Chunk1000 \o Chunk1000 \o Chunk1000
Body10001 == Body10000 \o "x"
Body50000 == Body10000 \o Body10000 \o Body10000 \o Body10000 \o Body10000
Body1200 == "<" \o Chunk1000 \o Chunk100 \o Chunk10 \o Chunk10 \o Chunk10 \o
            Chunk10 \o Chunk10 \o Chunk10 \o Chunk10 \o Chunk10 \o Chunk10 \o "123456789"

\* (url, content-type, body) of the responses the driver delivers to a script
ResponsesOf(s) ==
    IF s = "analyzer" THEN
        { <<UrlApi, "application/json; charset=utf-8", OddsBody>>,
          <<UrlSportradar, "text/plain", SpacedBody>>,
          <<UrlHome, "text/json", StatusBody>>,
          <<UrlAjax, "text/html", HtmlBody>>,
          <<UrlHome, "text/html", HtmlBody>> }
    ELSE IF s = "scraper" THEN
        { <<UrlApi, "application/json", OddsBody>>,
          <<UrlAjax, "text/html", Body1200>>,
          <<UrlApi, "application/json", EmptyBody>>,
          <<UrlHome, "text/html", HtmlBody>> }
    ELSE
        { <<UrlApi, "application/json", OddsBody>>,
          <<UrlHome, "application/json", Body10000>>,
          <<UrlAjax, "text/html", Body10001>>,
          <<UrlSportradar, "text/plain", Body50000>>,
          <<UrlHome, "text/html", HtmlBody>> }

\* event.name of the Runtime.bindingCalled events
BindingNames == {"websocket", "puppeteer"}

RequestEvent(url, method) ==
    [kind |-> "request", url |-> url, method |-> method,
     contentType |-> "", body |-> "", name |-> ""]

ResponseEvent(url, contentType, body) ==
    [kind |-> "response", url |-> url, method |-> "",
     contentType |-> contentType, body |-> body, name |-> ""]

BindingEvent(name, payload) ==
    [kind |-> "binding", url |-> payload, method |-> "",
     contentType |-> "", body |-> "", name |-> name]

\* the driver delivers event e: it becomes the next entry of the event log
Deliver(e) == events' = Append(events, e)

\* the identity of the event being delivered
NextId == Len(events) + 1

NoReport == [generated |-> FALSE]

\* startUrls
startUrls == << "https://www.betika.com/en-ke/sport/football",
               "https://www.betika.com/en-ke/sport/1" >>

\* a link the crawler found on a page and added to the queue
DiscoveredUrl == "https://www.betika.com/en-ke/sport/football/match"

\* handlePageFunction call k as it starts: the page of the k-th queued URL,
\* its handlers registered, no request seen on it yet, the call not having
\* thrown
NewPage(k) ==
    [url |-> IF k <= Len(startUrls) THEN startUrls[k] ELSE DiscoveredUrl,
     seen |-> {}, open |-> TRUE, failure |-> "none"]

\* the calls of handlePageFunction that have not returned
OpenPages == { p \in 1..Len(pages) : pages[p].open }

\* the main function before its first statement: no browser launched, no
\* step done, no write pending, no file written, no error thrown to the caller
NotStarted ==
    [pc |-> "start", browser |-> "none", closes |-> 0, steps |-> << >>,
     writing |-> << >>, files |-> << >>, thrown |-> FALSE]

Init ==
    /\ script \in Scripts
    /\ events = << >>
    /\ continued = << >>
    /\ awaiting = {}
    /\ networkRequests = << >>
    /\ apiCalls = << >>
    /\ externalSources = << >>
    /\ oddsData = << >>
    /\ websocketConnections = << >>
    /\ report = NoReport
    /\ data = << >>
    /\ apiEndpoints = << >>
    /\ interceptedRequests = << >>
    /\ dataset = << >>
    /\ pages = IF script = "apify" THEN << NewPage(1) >> ELSE << >>
    /\ run = NotStarted

----------------------------------------------------------------------------
(* BetikaAPIAnalyzer: the handlers installed by setupNetworkInterception *)

\* LogRequest logging only the requests some rule classifies
LogRequest_SkipOther(id, url, method) ==
    IF categorizeRequest(url) = "other"
    THEN networkRequests
    ELSE Append(networkRequests,
                [req |-> id, url |-> url, method |-> method,
                 type |-> categorizeRequest(url)])

\* LogRequest refusing requests once the report has been generated
LogRequest_RefuseAfterReport(id, url, method) ==
    IF report.generated
    THEN networkRequests
    ELSE Append(networkRequests,
                [req |-> id, url |-> url, method |-> method,
                 type |-> categorizeRequest(url)])

\* LogRequest with unshift in place of push
LogRequest_Unshift(id, url, method) ==
    << [req |-> id, url |-> url, method |-> method,
        type |-> categorizeRequest(url)] >> \o networkRequests

\* LogRequest keeping only the newest record
LogRequest_Rolling(id, url, method) ==
    << [req |-> id, url |-> url, method |-> method,
        type |-> categorizeRequest(url)] >>

\* this.networkRequests.push({...}): the list after the handler has logged
\* request id
LogRequest(id, url, method) ==
    Append(networkRequests,
           [req |-> id, url |-> url, method |-> method,
            type |-> categorizeRequest(url)])

\* AnalyzerContinueCalls with request.continue() inside the API-call if
AnalyzerContinueCalls_OnlyLogged(url) == IF isAPICall(url) THEN 1 ELSE 0

\* the number of request.continue() calls the handler makes for a request
AnalyzerContinueCalls(url) == 1

\* page.on('request', ...)
AnalyzerOnRequest(url, method) ==
    /\ script = "analyzer"
    /\ Deliver(RequestEvent(url, method))
    /\ networkRequests' = LogRequest(NextId, url, method)
    /\ apiCalls' = IF isAPICall(url)
                   THEN Append(apiCalls, [req |-> NextId, url |-> url, method |-> method])
                   ELSE apiCalls
    /\ externalSources' = IF isExternalSource(url)
                          THEN Append(externalSources,
                                   [req |-> NextId, url |-> url,
                                    provider |-> identifyProvider(url)])
                          ELSE externalSources
    /\ continued' = Append(continued, AnalyzerContinueCalls(url))
    /\ UNCHANGED <<script, pages, run, awaiting, oddsData, websocketConnections, report,
                   scraperVars, apifyVars>>

\* AnalyzerOnResponse with the body at hand on delivery: no await, the
\* whole handler in one step
AnalyzerOnResponse_Synchronous(url, contentType, body) ==
    /\ script = "analyzer"
    /\ Deliver(ResponseEvent(url, contentType, body))
    /\ oddsData' =
         IF /\ isAPICall(url) \/ isJSONResponse(contentType)
            /\ isJSONContent(body) /\ containsOddsData(body)
         THEN Append(oddsData, [res |-> NextId, url |-> url,
                                data |-> JSONStringify(body)])
         ELSE oddsData
    /\ continued' = Append(continued, 0)
    /\ UNCHANGED <<script, pages, run, awaiting, networkRequests, apiCalls,
                   externalSources, websocketConnections, report,
                   scraperVars, apifyVars>>

\* AnalyzerOnResponse reading the body of every response
AnalyzerOnResponse_Unconditional(url, contentType, body) ==
    /\ script = "analyzer"
    /\ Deliver(ResponseEvent(url, contentType, body))
    /\ awaiting' = awaiting \cup {NextId}
    /\ continued' = Append(continued, 0)
    /\ UNCHANGED <<script, pages, run, analyzerVars, scraperVars, apifyVars>>

\* page.on('response', ...) up to its await of response.text()
AnalyzerOnResponse(url, contentType, body) ==
    /\ script = "analyzer"
    /\ Deliver(ResponseEvent(url, contentType, body))
    /\ awaiting' = IF isAPICall(url) \/ isJSONResponse(contentType)
                   THEN awaiting \cup {NextId}
                   ELSE awaiting
    /\ continued' = Append(continued, 0)
    /\ UNCHANGED <<script, pages, run, analyzerVars, scraperVars, apifyVars>>

\* page.on('response', ...) from the moment response.text() settles:
\* resolved with the body (ok) or rejected
AnalyzerResponseText(id, ok) ==
    /\ script = "analyzer"
    /\ id \in awaiting
    /\ awaiting' = awaiting \ {id}
    /\ oddsData' =
         IF ok /\ isJSONContent(events[id].body) /\ containsOddsData(events[id].body)
         THEN Append(oddsData, [res |-> id, url |-> events[id].url,
                                data |-> JSONStringify(events[id].body)])
         ELSE oddsData
    /\ UNCHANGED <<script, pages, run, events, continued, networkRequests, apiCalls,
                   externalSources, websocketConnections, report,
                   scraperVars, apifyVars>>

\* new URL(s) does not throw, for the strings the driver delivers here: s has
\* client.on('Runtime.bindingCalled', ...)
AnalyzerOnBindingCalled(name, payload) ==
    /\ script = "analyzer"
    /\ Deliver(BindingEvent(name, payload))
    /\ websocketConnections' =
         IF name = "websocket"
         THEN Append(websocketConnections, [ev |-> NextId, url |-> payload])
         ELSE websocketConnections
    /\ continued' = Append(continued, 0)
    /\ UNCHANGED <<script, pages, run, awaiting, networkRequests, apiCalls, externalSources,
                   oddsData, report, scraperVars, apifyVars>>

----------------------------------------------------------------------------
(* BetikaAPIAnalyzer: the report *)

\* Distinct without the Set
Distinct_KeepAll(seq) == seq

\* [...new Set(seq)]: the distinct elements, in order of first occurrence
RECURSIVE Distinct(_)
Distinct(seq) ==
    IF seq = << >> THEN << >>
    ELSE LET front == Distinct(SubSeq(seq, 1, Len(seq) - 1))
             last == seq[Len(seq)]
         IN  IF \E k \in 1..Len(front) : front[k] = last
             THEN front
             ELSE Append(front, last)

\* the entries of calls whose url includes 'betika.com', in order
RECURSIVE BetikaCalls(_)
BetikaCalls(calls) ==
    IF calls = << >> THEN << >>
    ELSE LET front == BetikaCalls(SubSeq(calls, 1, Len(calls) - 1))
             last == calls[Len(calls)]
         IN  IF Includes(last.url, "betika.com") THEN Append(front, last) ELSE front

\* identifyRawDataSources with one keyword test for both kinds of source
identifyRawDataSources_AllKeywords ==
    LET live(url) == \/ Includes(url, "live") \/ Includes(url, "update")
                     \/ Includes(url, "ws://") \/ Includes(url, "wss://")
        external(k) ==
            [provider |-> externalSources[k].provider,
             url |-> externalSources[k].url,
             data_type |-> "External odds feed",
             access_method |-> "API integration",
             real_time |-> live(externalSources[k].url)]
        internalCalls == BetikaCalls(apiCalls)
        internal(k) ==
            [provider |-> "Betika Internal",
             url |-> internalCalls[k].url,
             data_type |-> "Internal API",
             access_method |-> internalCalls[k].method,
             real_time |-> live(internalCalls[k].url)]
    IN  [k \in 1..Len(externalSources) |-> external(k)]
        \o [k \in 1..Len(internalCalls) |-> internal(k)]

identifyRawDataSources ==
    LET external(k) ==
            [provider |-> externalSources[k].provider,
             url |-> externalSources[k].url,
             data_type |-> "External odds feed",
             access_method |-> "API integration",
             real_time |-> Includes(externalSources[k].url, "ws://")
                           \/ Includes(externalSources[k].url, "wss://")]
        internalCalls == BetikaCalls(apiCalls)
        internal(k) ==
            [provider |-> "Betika Internal",
             url |-> internalCalls[k].url,
             data_type |-> "Internal API",
             access_method |-> internalCalls[k].method,
             real_time |-> Includes(internalCalls[k].url, "live")
                           \/ Includes(internalCalls[k].url, "update")]
    IN  [k \in 1..Len(externalSources) |-> external(k)]
        \o [k \in 1..Len(internalCalls) |-> internal(k)]

\* BuildReport counting the providers instead of the external sources
BuildReport_CountProviders ==
    [generated |-> TRUE,
     summary |-> [total_requests |-> Len(networkRequests),
                  api_calls |-> Len(apiCalls),
                  external_sources |->
                      Len(Distinct([k \in 1..Len(externalSources) |->
                                       externalSources[k].provider])),
                  websocket_connections |-> Len(websocketConnections),
                  odds_data_found |-> Len(oddsData)],
     network_analysis |-> [api_calls |-> "apiCalls",
                           external_sources |-> "externalSources",
                           websocket_connections |-> "websocketConnections"],
     odds_data |-> "oddsData",
     external_providers |->
         Distinct([k \in 1..Len(externalSources) |-> externalSources[k].provider]),
     raw_data_sources |-> identifyRawDataSources]

\* The object generateAnalysisReport builds.  summary, external_providers and
\* raw_data_sources are computed values; network_analysis and odds_data hold
\* the analyzer's own arrays, written here as the name of the array.
BuildReport ==
    [generated |-> TRUE,
     summary |-> [total_requests |-> Len(networkRequests),
                  api_calls |-> Len(apiCalls),
                  external_sources |-> Len(externalSources),
                  websocket_connections |-> Len(websocketConnections),
                  odds_data_found |-> Len(oddsData)],
     network_analysis |-> [api_calls |-> "apiCalls",
                           external_sources |-> "externalSources",
                           websocket_connections |-> "websocketConnections"],
     odds_data |-> "oddsData",
     external_providers |->
         Distinct([k \in 1..Len(externalSources) |-> externalSources[k].provider]),
     raw_data_sources |-> identifyRawDataSources]

\* the array a report field refers to
Array(name) ==
    CASE name = "apiCalls" -> apiCalls
      [] name = "externalSources" -> externalSources
      [] name = "websocketConnections" -> websocketConnections
      [] name = "oddsData" -> oddsData

\* what a reader of the returned report object sees
ReportValue ==
    [summary |-> report.summary,
     network_analysis |->
         [api_calls |-> Array(report.network_analysis.api_calls),
          external_sources |-> Array(report.network_analysis.external_sources),
          websocket_connections |->
              Array(report.network_analysis.websocket_connections)],
     odds_data |-> Array(report.odds_data),
     external_providers |-> report.external_providers,
     raw_data_sources |-> report.raw_data_sources]

\* generateAnalysisReport, called once by analyzeBetikaAPIs
GenerateAnalysisReport ==
    /\ script = "analyzer"
    /\ ~report.generated
    /\ report' = BuildReport
    /\ UNCHANGED <<script, pages, run, events, continued, awaiting, networkRequests, apiCalls,
                   externalSources, oddsData, websocketConnections,
                   scraperVars, apifyVars>>

----------------------------------------------------------------------------
(* BetikaScraper: the handlers installed by init *)

ScraperCaptures(url) ==
    Includes(url, "api") \/ Includes(url, "ajax") \/ Includes(url, "odds")

\* the number of request.continue() calls the handler makes for a request
ScraperContinueCalls(url) == 1

\* this.page.on('request', ...)
ScraperOnRequest(url, method) ==
    /\ script = "scraper"
    /\ Deliver(RequestEvent(url, method))
    /\ apiEndpoints' = IF ScraperCaptures(url)
                       THEN Append(apiEndpoints,
                                [req |-> NextId, url |-> url, method |-> method])
                       ELSE apiEndpoints
    /\ continued' = Append(continued, ScraperContinueCalls(url))
    /\ UNCHANGED <<script, pages, run, awaiting, analyzerVars, data, apifyVars>>

\* this.page.on('response', ...) up to its await of response.text()
ScraperOnResponse(url, contentType, body) ==
    /\ script = "scraper"
    /\ Deliver(ResponseEvent(url, contentType, body))
    /\ awaiting' = IF ScraperCaptures(url) THEN awaiting \cup {NextId} ELSE awaiting
    /\ continued' = Append(continued, 0)
    /\ UNCHANGED <<script, pages, run, analyzerVars, scraperVars, apifyVars>>

\* this.page.on('response', ...) from the moment response.text() settles
ScraperResponseText(id, ok) ==
    /\ script = "scraper"
    /\ id \in awaiting
    /\ awaiting' = awaiting \ {id}
    /\ data' =
         IF ok /\ Len(events[id].body) > 0
         THEN Append(data,
                  [type |-> "api_response", res |-> id, url |-> events[id].url,
                   data |-> IF JSONParses(events[id].body)
                            THEN JSONStringify(events[id].body)
                            ELSE Substring0(events[id].body, ScraperTextLimit)])
         ELSE data
    /\ UNCHANGED <<script, pages, run, events, continued, analyzerVars, apiEndpoints, apifyVars>>

----------------------------------------------------------------------------
(* Apify actor: the handlers installed by handlePageFunction *)

ApifyCaptures(url) ==
    \/ Includes(url, "api") \/ Includes(url, "ajax") \/ Includes(url, "odds")
    \/ Includes(url, "ws://") \/ Includes(url, "wss://")

\* the number of interceptedRequest.continue() calls the handler makes
ApifyContinueCalls(url) == 1

\* page.on('request', ...) of the page of handlePageFunction call p
ApifyOnRequest(p, url, method) ==
    /\ script = "apify"
    /\ p \in OpenPages
    /\ Deliver(RequestEvent(url, method))
    /\ pages' = [pages EXCEPT ![p].seen = @ \cup {NextId}]
    /\ interceptedRequests' =
         IF ApifyCaptures(url)
         THEN Append(interceptedRequests,
                  [req |-> NextId, url |-> url, method |-> method])
         ELSE interceptedRequests
    /\ continued' = Append(continued, ApifyContinueCalls(url))
    /\ UNCHANGED <<script, run, awaiting, analyzerVars, scraperVars, dataset>>

\* page.on('response', ...) up to its await of response.text()
ApifyOnResponse(url, contentType, body) ==
    /\ script = "apify"
    /\ Deliver(ResponseEvent(url, contentType, body))
    /\ awaiting' = IF \/ Includes(url, "api") \/ Includes(url, "odds")
                      \/ Includes(url, "ajax") \/ Includes(contentType, "json")
                   THEN awaiting \cup {NextId}
                   ELSE awaiting
    /\ continued' = Append(continued, 0)
    /\ UNCHANGED <<script, pages, run, analyzerVars, scraperVars, apifyVars>>

\* ApifyStoredBody without the substring
ApifyStoredBody_Whole(responseBody) == responseBody

\* the body field of the api_response record built from responseBody
ApifyStoredBody(responseBody) == Substring0(responseBody, ApifyBodyLimit)

\* page.on('response', ...) from the moment response.text() settles to
\* dataset.pushData
ApifyResponseText(id, ok) ==
    /\ script = "apify"
    /\ id \in awaiting
    /\ awaiting' = awaiting \ {id}
    /\ dataset' =
         IF ok
         THEN Append(dataset,
                  [type |-> "api_response", res |-> id, url |-> events[id].url,
                   body |-> ApifyStoredBody(events[id].body)])
         ELSE dataset
    /\ UNCHANGED <<script, pages, run, events, continued, analyzerVars, scraperVars,
                   interceptedRequests>>

----------------------------------------------------------------------------
(* The run *)

OnRequest ==
    /\ Len(events) < MaxEvents
    /\ \E url \in Urls : \E method \in MethodsOf(url) :
           \/ AnalyzerOnRequest(url, method)
           \/ ScraperOnRequest(url, method)
           \/ \E p \in OpenPages : ApifyOnRequest(p, url, method)

OnResponse ==
    /\ Len(events) < MaxEvents
    /\ \E r \in ResponsesOf(script) :
           \/ AnalyzerOnResponse(r[1], r[2], r[3])
           \/ ScraperOnResponse(r[1], r[2], r[3])
           \/ ApifyOnResponse(r[1], r[2], r[3])

ResponseText ==
    \E id \in awaiting : \E ok \in BOOLEAN :
        \/ AnalyzerResponseText(id, ok)
        \/ ScraperResponseText(id, ok)
        \/ ApifyResponseText(id, ok)

OnBindingCalled ==
    /\ Len(events) < MaxEvents
    /\ \E name \in BindingNames : \E payload \in {UrlWss} :
           AnalyzerOnBindingCalled(name, payload)

Next ==
    \/ OnRequest
    \/ OnResponse
    \/ ResponseText
    \/ OnBindingCalled
    \/ GenerateAnalysisReport

Spec == Init /\ [][Next]_vars

----------------------------------------------------------------------------
(* The analyzer's classification on a wider set of URLs: request and       *)
(* binding events and the report, no responses.                            *)

UrlOwnWithProvider == "https://www.betika.com/partners/sportradar.com/logo.png"
UrlRefProvider == "https://tracker.example.com/pixel?ref=sportradar.com"
UrlLiveExternal == "https://live.sportradar.com/feed"
UrlWssBetika == "wss://stream.betika.com/api/odds"
UrlWssLive == "wss://live.example.com/odds"
UrlOddsApiIo == "https://oddsapi.io/v4/sports"

WideUrls == Urls \cup { UrlOwnWithProvider, UrlRefProvider, UrlLiveExternal,
                        UrlWssBetika, UrlWssLive, UrlOddsApiIo }

InitClassify == Init /\ script = "analyzer"

ClassifyRequest ==
    /\ Len(events) < MaxEvents
    /\ \E url \in WideUrls : \E method \in MethodsOf(url) :
           AnalyzerOnRequest(url, method)

ClassifyBinding ==
    /\ Len(events) < MaxEvents
    /\ \E name \in BindingNames : AnalyzerOnBindingCalled(name, UrlWss)

NextClassify ==
    \/ ClassifyRequest
    \/ ClassifyBinding
    \/ GenerateAnalysisReport

SpecClassify == InitClassify /\ [][NextClassify]_vars

----------------------------------------------------------------------------
(* The analyzer's request handler on URLs addressed to the provider hosts  *)
(* of isExternalSource's list: with and without /api/, /ajax/, a ws scheme *)
(* and the text betika.com in them.                                        *)

UrlProviderAjax == "https://widgets.kambi.com/ajax/odds"
UrlProviderWss == "wss://stream.sportradar.com/live"
UrlProviderForBetika == "https://api.sportradar.com/feed?client=betika.com"
UrlKambiSportradar == "https://kambi.com/feeds/sportradar"
UrlProviderPort == "https://feed.lsports.eu:8443/snapshot"

ProviderUrls == { UrlSportradar, UrlSportradarApi, UrlBetradar, UrlPinnacle,
                  UrlOddsApiIo, UrlLiveExternal, UrlProviderAjax, UrlProviderWss,
                  UrlProviderForBetika, UrlKambiSportradar, UrlProviderPort,
                  UrlRefProvider, UrlHome }

ProvidersRequest ==
    /\ Len(events) < MaxEvents
    /\ \E url \in ProviderUrls : AnalyzerOnRequest(url, "GET")

NextProviders ==
    \/ ProvidersRequest
    \/ GenerateAnalysisReport

SpecProviders == InitClassify /\ [][NextProviders]_vars

----------------------------------------------------------------------------
(* The response handlers of the analyzer and of the Apify actor over
   responses of more content types *)

WideResponsesOf(s) ==
    IF s = "analyzer" THEN
        { <<UrlApi, "application/octet-stream", OddsBody>>,
          <<UrlApi, "image/png", HtmlBody>>,
          <<UrlHome, "application/json", OddsBody>>,
          <<UrlHome, "text/json", StatusBody>>,
          <<UrlHome, "text/html", OddsBody>>,
          <<UrlSportradar, "application/octet-stream", OddsBody>> }
    ELSE
        { <<UrlApi, "image/png", HtmlBody>>,
          <<UrlAjax, "application/octet-stream", EmptyBody>>,
          <<UrlHome, "application/json", OddsBody>>,
          <<UrlHome, "text/html", OddsBody>>,
          <<UrlStyle, "text/css", HtmlBody>>,
          <<UrlHome, "image/png", HtmlBody>> }

InitResponses == Init /\ script \in {"analyzer", "apify"}

WideResponse ==
    /\ Len(events) < MaxEvents
    /\ \E r \in WideResponsesOf(script) :
           \/ AnalyzerOnResponse(r[1], r[2], r[3])
           \/ ApifyOnResponse(r[1], r[2], r[3])

WideResponseText ==
    \E id \in awaiting : \E ok \in BOOLEAN :
        \/ AnalyzerResponseText(id, ok)
        \/ ApifyResponseText(id, ok)

NextResponses ==
    \/ WideResponse
    \/ WideResponseText

SpecResponses == InitResponses /\ [][NextResponses]_vars

----------------------------------------------------------------------------
(* The analyzer's request handler over the URLs of assets *)

UrlJson == "https://www.betika.com/data/config.json"
UrlImage == "https://www.betika.com/img/logo.png"
UrlScriptVersioned == "https://www.betika.com/static/app.js?v=3"
UrlJsDirectory == "https://www.betika.com/lib/jquery.js/readme"
UrlCssInQuery == "https://www.betika.com/page?theme=dark.css"

AssetUrls == { UrlScript, UrlStyle, UrlHome, UrlJson, UrlImage,
               UrlScriptVersioned, UrlJsDirectory, UrlCssInQuery }

AssetRequest ==
    /\ Len(events) < MaxEvents
    /\ \E url \in AssetUrls : \E method \in MethodsOf(url) :
           AnalyzerOnRequest(url, method)

NextAssets ==
    \/ AssetRequest
    \/ GenerateAnalysisReport

SpecAssets == InitClassify /\ [][NextAssets]_vars

----------------------------------------------------------------------------
(* BetikaAPIAnalyzer.analyzeBetikaAPIs, statement by statement.  Every awaited
   call of the driver or the file system either succeeds (ok) or throws. *)

\* number of events the driver delivers during one run of analyzeBetikaAPIs
MaxRunEvents == 2

sportsUrls == << "https://www.betika.com/en-ke/sport/football",
                "https://www.betika.com/en-ke/sport/1",
                "https://www.betika.com/en-ke/live-betting" >>

\* what the main function leaves alone
captureVars == <<script, events, continued, awaiting, analyzerVars, scraperVars,
                 apifyVars, pages>>

\* one statement of the main function, as done (ok) or as having thrown
Step(op, ok) == [op |-> op, ok |-> ok]

\* the main function goes on to pc after its statement op
Proceed(op, ok, pc) == [run EXCEPT !.pc = pc, !.steps = Append(@, Step(op, ok))]

\* the statement op throws outside every try: the error reaches the caller
Throw(op) ==
    [run EXCEPT !.pc = "returned", !.thrown = TRUE,
                !.steps = Append(@, Step(op, FALSE))]

\* const browser = await puppeteer.launch({...})
Launch(ok) ==
    /\ script = "analyzer"
    /\ run.pc = "start"
    /\ run' = IF ok
              THEN [Proceed("launch", TRUE, "newPage") EXCEPT !.browser = "open"]
              ELSE Throw("launch")
    /\ UNCHANGED captureVars

\* const page = await browser.newPage()
BrowserNewPage(ok) ==
    /\ script = "analyzer"
    /\ run.pc = "newPage"
    /\ run' = IF ok THEN Proceed("newPage", TRUE, "setup") ELSE Throw("newPage")
    /\ UNCHANGED captureVars

\* setupNetworkInterception: await page.setRequestInterception(true); when
\* it resolves, page.on('request') and page.on('response') install the
\* handlers before the next await
SetRequestInterception(ok) ==
    /\ script = "analyzer"
    /\ run.pc = "setup"
    /\ run' = IF ok THEN Proceed("setRequestInterception", TRUE, "createCDPSession")
              ELSE Throw("setRequestInterception")
    /\ UNCHANGED captureVars

\* setupNetworkInterception: const client = await page.target().createCDPSession()
CreateCDPSession(ok) ==
    /\ script = "analyzer"
    /\ run.pc = "createCDPSession"
    /\ run' = IF ok THEN Proceed("createCDPSession", TRUE, "runtimeEnable")
              ELSE Throw("createCDPSession")
    /\ UNCHANGED captureVars

\* setupNetworkInterception: await client.send('Runtime.enable'), after which
\* setupNetworkInterception returns and analyzeBetikaAPIs enters its try
RuntimeEnable(ok) ==
    /\ script = "analyzer"
    /\ run.pc = "runtimeEnable"
    /\ run' = IF ok THEN Proceed("Runtime.enable", TRUE, "mainPage")
              ELSE Throw("Runtime.enable")
    /\ UNCHANGED captureVars

\* AnalyzeMainPage going on to the next phase after the catch
AnalyzeMainPage_GoOn(ok) ==
    /\ script = "analyzer"
    /\ run.pc = "mainPage"
    /\ run' = Proceed("analyzeMainPage", ok, "sports")
    /\ UNCHANGED captureVars

\* await this.analyzeMainPage(page), and the catch block when it throws
AnalyzeMainPage(ok) ==
    /\ script = "analyzer"
    /\ run.pc = "mainPage"
    /\ run' = Proceed("analyzeMainPage", ok, IF ok THEN "sports" ELSE "finally")
    /\ UNCHANGED captureVars

\* the sports URLs analyzeSportsPages has attempted
Attempted == { k \in 1..Len(run.steps) :
                 \E i \in 1..Len(sportsUrls) : run.steps[k].op = sportsUrls[i] }

\* AnalyzeSportsPage without the try inside the loop
AnalyzeSportsPage_NoTry(ok) ==
    /\ script = "analyzer"
    /\ run.pc = "sports"
    /\ LET i == Cardinality(Attempted) + 1
       IN  run' = Proceed(sportsUrls[i], ok,
                          IF ~ok THEN "finally"
                          ELSE IF i = Len(sportsUrls) THEN "endpoints" ELSE "sports")
    /\ UNCHANGED captureVars

\* one round of the loop of analyzeSportsPages: the try block for the next
\* URL, with its catch when goto or evaluate throws
AnalyzeSportsPage(ok) ==
    /\ script = "analyzer"
    /\ run.pc = "sports"
    /\ LET i == Cardinality(Attempted) + 1
       IN  run' = Proceed(sportsUrls[i], ok,
                          IF i = Len(sportsUrls) THEN "endpoints" ELSE "sports")
    /\ UNCHANGED captureVars

\* await this.analyzeAPIEndpoints(page): every endpoint in its own try
AnalyzeAPIEndpoints ==
    /\ script = "analyzer"
    /\ run.pc = "endpoints"
    /\ run' = Proceed("analyzeAPIEndpoints", TRUE, "generate")
    /\ UNCHANGED captureVars

\* this.generateAnalysisReport() called by analyzeBetikaAPIs: the report is
\* built, and analyzeBetikaAPIs waits for it in the await of line 49
CallGenerateAnalysisReport ==
    /\ script = "analyzer"
    /\ run.pc = "generate"
    /\ ~report.generated
    /\ report' = BuildReport
    /\ run' = [run EXCEPT !.pc = "awaitReport"]
    /\ UNCHANGED <<script, pages, events, continued, awaiting, networkRequests,
                   apiCalls, externalSources, oddsData, websocketConnections,
                   scraperVars, apifyVars>>

\* analyzeBetikaAPIs resumes with the report in the same turn of the event
\* loop and calls saveResults(report), which runs up to its first await:
\* JSON.stringify(report) is evaluated and fs.writeFile called
AwaitReport ==
    /\ script = "analyzer"
    /\ run.pc = "awaitReport"
    /\ run' = [Proceed("generateAnalysisReport", TRUE, "saveJson") EXCEPT
                  !.writing = << ReportValue >>]
    /\ UNCHANGED captureVars

\* between the report and the resumption of analyzeBetikaAPIs only promises
\* that settle in the same turn are served: no new event is delivered
SameTurn == run.pc = "awaitReport"

\* SummaryOf reading the analyzer's lists instead of the report
SummaryOf_Live(r) ==
    [counts |-> BuildReport.summary,
     providers |-> BuildReport.external_providers,
     sources |-> [k \in 1..Len(BuildReport.raw_data_sources) |->
                    [provider |-> BuildReport.raw_data_sources[k].provider,
                     data_type |-> BuildReport.raw_data_sources[k].data_type,
                     access_method |-> BuildReport.raw_data_sources[k].access_method]]]

\* the values the markdown summary prints of report r
SummaryOf(r) ==
    [counts |-> r.summary,
     providers |-> r.external_providers,
     sources |-> [k \in 1..Len(r.raw_data_sources) |->
                    [provider |-> r.raw_data_sources[k].provider,
                     data_type |-> r.raw_data_sources[k].data_type,
                     access_method |-> r.raw_data_sources[k].access_method]]]

\* a file of name with content, written after `at` events had been delivered
File(name, content) == [name |-> name, content |-> content, at |-> Len(events)]

\* saveResults: the awaited fs.writeFile(results.json, ...) resolves with the
\* content it was called with; the summary is built from the report and
\* fs.writeFile(summary.md, summary) is called.  When the write throws, the
\* catch of saveResults
SaveJson(ok) ==
    /\ script = "analyzer"
    /\ run.pc = "saveJson"
    /\ run' = IF ok
              THEN [Proceed("writeJson", TRUE, "saveSummary") EXCEPT
                       !.files = Append(@, File("betika-api-analysis-results.json",
                                                run.writing[1])),
                       !.writing = << SummaryOf(report) >>]
              ELSE [Proceed("writeJson", FALSE, "finally") EXCEPT !.writing = << >>]
    /\ UNCHANGED captureVars

\* saveResults: the awaited fs.writeFile(summary.md, summary) resolves with
\* the content it was called with, or throws into the catch of saveResults
SaveSummary(ok) ==
    /\ script = "analyzer"
    /\ run.pc = "saveSummary"
    /\ run' = IF ok
              THEN [Proceed("writeSummary", TRUE, "finally") EXCEPT
                       !.files = Append(@, File("betika-analysis-summary.md",
                                                run.writing[1])),
                       !.writing = << >>]
              ELSE [Proceed("writeSummary", FALSE, "finally") EXCEPT !.writing = << >>]
    /\ UNCHANGED captureVars

\* finally { await browser.close() }: the browser closes, or close() rejects
\* outside every try and the error reaches the caller
CloseBrowser(ok) ==
    /\ script = "analyzer"
    /\ run.pc = "finally"
    /\ run' = IF ok
              THEN [Proceed("close", TRUE, "returned") EXCEPT
                       !.browser = "closed", !.closes = @ + 1]
              ELSE [Throw("close") EXCEPT !.closes = @ + 1]
    /\ UNCHANGED captureVars

\* the main function has done statement op
Completed(op) == \E k \in 1..Len(run.steps) : run.steps[k] = Step(op, TRUE)

\* the handlers of setupNetworkInterception are installed on a page of an
\* open browser
HandlersInstalled ==
    /\ run.browser = "open"
    /\ Completed("setRequestInterception")

RunUrls == { UrlSportradar, UrlApi }

RunResponses == { <<UrlApi, "application/json", OddsBody>>,
                  <<UrlApi, "application/json", HtmlBody>> }

RunRequest ==
    /\ HandlersInstalled
    /\ ~SameTurn
    /\ Len(events) < MaxRunEvents
    /\ \E url \in RunUrls : \E method \in MethodsOf(url) :
           AnalyzerOnRequest(url, method)

RunResponse ==
    /\ HandlersInstalled
    /\ ~SameTurn
    /\ Len(events) < MaxRunEvents
    /\ \E r \in RunResponses : AnalyzerOnResponse(r[1], r[2], r[3])

RunResponseText ==
    \E id \in awaiting : \E ok \in BOOLEAN : AnalyzerResponseText(id, ok)

NextAnalysis ==
    \/ \E ok \in BOOLEAN : Launch(ok)
    \/ \E ok \in BOOLEAN : BrowserNewPage(ok)
    \/ \E ok \in BOOLEAN : SetRequestInterception(ok)
    \/ \E ok \in BOOLEAN : CreateCDPSession(ok)
    \/ \E ok \in BOOLEAN : RuntimeEnable(ok)
    \/ \E ok \in BOOLEAN : AnalyzeMainPage(ok)
    \/ \E ok \in BOOLEAN : AnalyzeSportsPage(ok)
    \/ AnalyzeAPIEndpoints
    \/ CallGenerateAnalysisReport
    \/ AwaitReport
    \/ \E ok \in BOOLEAN : SaveJson(ok)
    \/ \E ok \in BOOLEAN : SaveSummary(ok)
    \/ \E ok \in BOOLEAN : CloseBrowser(ok)
    \/ RunRequest
    \/ RunResponse
    \/ RunResponseText

SpecAnalysis == InitClassify /\ [][NextAnalysis]_vars

----------------------------------------------------------------------------
(* The standalone scraper's main, statement by statement *)

\* how init can end: all its awaits succeed, puppeteer.launch throws, or a
\* later await of init throws
InitOutcomes == {"ok", "launch throws", "newPage throws", "setUserAgent throws",
                 "setRequestInterception throws"}

\* await scraper.init(), which installs the handlers after its last await,
\* and the catch of main when it throws
ScraperInit(outcome) ==
    /\ script = "scraper"
    /\ run.pc = "start"
    /\ run' = [Proceed("init", outcome = "ok",
                       IF outcome = "ok" THEN "goto" ELSE "finally")
                  EXCEPT !.browser = IF outcome = "launch throws" THEN "none" ELSE "open"]
    /\ UNCHANGED captureVars

\* scrapeBetika: await this.page.goto(...) and the wait after it, with the
\* catch of scrapeBetika when it throws
ScraperGoto(ok) ==
    /\ script = "scraper"
    /\ run.pc = "goto"
    /\ run' = Proceed("goto", ok, IF ok THEN "evaluate" ELSE "save")
    /\ UNCHANGED captureVars

\* scrapeBetika: await this.page.evaluate(...) and this.data.push of the
\* scraped_data record, with the catch of scrapeBetika when evaluate throws
ScraperEvaluate(ok) ==
    /\ script = "scraper"
    /\ run.pc = "evaluate"
    /\ run' = Proceed("evaluate", ok, "save")
    /\ data' = IF ok
               THEN Append(data, [type |-> "scraped_data", res |-> 0,
                                  url |-> sportsUrls[1], data |-> "oddsData"])
               ELSE data
    /\ UNCHANGED <<script, events, continued, awaiting, analyzerVars, apiEndpoints,
                   apifyVars, pages>>

\* ScrapedElements counting every entry
ScrapedElements_All(d) == Len(d)

\* this.data.filter(d => d.type === 'scraped_data').length
ScrapedElements(d) == Cardinality({ k \in 1..Len(d) : d[k].type = "scraped_data" })

\* the results object of saveResults
ScraperResults ==
    [summary |-> [totalDataPoints |-> Len(data),
                  apiEndpoints |-> Len(apiEndpoints),
                  scrapedElements |-> ScrapedElements(data)],
     data |-> data,
     apiEndpoints |-> apiEndpoints]

\* how saveResults can end: both writes done, or the first or the second
\* writeFileSync throws
SaveOutcomes == {"ok", "first write throws", "second write throws"}

\* await scraper.saveResults(), and the catch of main when a write throws
ScraperSaveResults(outcome) ==
    /\ script = "scraper"
    /\ run.pc = "save"
    /\ run' = [Proceed("saveResults", outcome = "ok", "finally") EXCEPT
                  !.files =
                      IF outcome = "first write throws" THEN @
                      ELSE IF outcome = "second write throws"
                      THEN Append(@, File("betika-scraper-results.json", ScraperResults))
                      ELSE @ \o << File("betika-scraper-results.json", ScraperResults),
                                   File("betika-api-endpoints.json", apiEndpoints) >>]
    /\ UNCHANGED captureVars

\* finally { await scraper.close() }: browser.close() if this.browser is
\* set; when browser.close() rejects, the error leaves main
ScraperClose(ok) ==
    /\ script = "scraper"
    /\ run.pc = "finally"
    /\ ok \/ run.browser = "open"
    /\ run' = IF ok
              THEN [Proceed("close", TRUE, "returned") EXCEPT
                       !.closes = @ + 1,
                       !.browser = IF @ = "open" THEN "closed" ELSE @]
              ELSE [Throw("close") EXCEPT !.closes = @ + 1]
    /\ UNCHANGED captureVars

\* the handlers of init are installed on the page of an open browser
ScraperHandlersInstalled ==
    /\ run.browser = "open"
    /\ Completed("init")

ScrapeRequest ==
    /\ ScraperHandlersInstalled
    /\ Len(events) < MaxRunEvents
    /\ \E url \in RunUrls : \E method \in MethodsOf(url) :
           ScraperOnRequest(url, method)

ScrapeResponse ==
    /\ ScraperHandlersInstalled
    /\ Len(events) < MaxRunEvents
    /\ \E r \in RunResponses : ScraperOnResponse(r[1], r[2], r[3])

ScrapeResponseText ==
    \E id \in awaiting : \E ok \in BOOLEAN : ScraperResponseText(id, ok)

InitScrape == Init /\ script = "scraper"

NextScrape ==
    \/ \E outcome \in InitOutcomes : ScraperInit(outcome)
    \/ \E ok \in BOOLEAN : ScraperGoto(ok)
    \/ \E ok \in BOOLEAN : ScraperEvaluate(ok)
    \/ \E outcome \in SaveOutcomes : ScraperSaveResults(outcome)
    \/ \E ok \in BOOLEAN : ScraperClose(ok)
    \/ ScrapeRequest
    \/ ScrapeResponse
    \/ ScrapeResponseText

SpecScrape == InitScrape /\ [][NextScrape]_vars

----------------------------------------------------------------------------
(* All handlers of the analyzer and its report over a few URLs *)

ListsRequest ==
    /\ Len(events) < MaxEvents
    /\ \E url \in RunUrls \cup {UrlHome} : \E method \in MethodsOf(url) :
           AnalyzerOnRequest(url, method)

ListsResponse ==
    /\ Len(events) < MaxEvents
    /\ \E r \in RunResponses : AnalyzerOnResponse(r[1], r[2], r[3])

ListsResponseText ==
    \E id \in awaiting : \E ok \in BOOLEAN : AnalyzerResponseText(id, ok)

ListsBinding ==
    /\ Len(events) < MaxEvents
    /\ \E name \in BindingNames : AnalyzerOnBindingCalled(name, UrlWss)

NextLists ==
    \/ ListsRequest
    \/ ListsResponse
    \/ ListsResponseText
    \/ ListsBinding
    \/ GenerateAnalysisReport

SpecLists == InitClassify /\ [][NextLists]_vars

----------------------------------------------------------------------------
(* The Apify crawler over several pages *)

MaxPages == 2

\* the largest maxConcurrency input; a run that never has two pages open
\* is a run of maxConcurrency = 1
maxConcurrency == 2

InitCrawl == Init /\ script = "apify"

\* the crawler takes the next URL from the queue and calls handlePageFunction
HandlePage ==
    /\ script = "apify"
    /\ Len(pages) < MaxPages
    /\ Cardinality(OpenPages) < maxConcurrency
    /\ pages' = Append(pages, NewPage(Len(pages) + 1))
    /\ UNCHANGED <<script, run, events, continued, awaiting, analyzerVars,
                   scraperVars, apifyVars>>

CrawlRequest ==
    /\ Len(events) < MaxEvents
    /\ \E p \in OpenPages : \E url \in Urls : \E method \in MethodsOf(url) :
           ApifyOnRequest(p, url, method)

CrawlResponse ==
    /\ Len(events) < MaxEvents
    /\ OpenPages # {}
    /\ \E r \in ResponsesOf("apify") : ApifyOnResponse(r[1], r[2], r[3])

CrawlResponseText ==
    \E id \in awaiting : \E ok \in BOOLEAN : ApifyResponseText(id, ok)

\* handlePageFunction call p has pushed its scraped_data record
Saved(p) ==
    \E k \in 1..Len(dataset) :
        dataset[k].type = "scraped_data" /\ dataset[k].page = p

\* handlePageFunction call p calls dataset.pushData({type: 'scraped_data', ...}):
\* pushData stores the array as it is at the call; the call goes on to look
\* for links with its page still open
SavePage(p) ==
    /\ script = "apify"
    /\ p \in OpenPages
    /\ ~Saved(p)
    /\ dataset' = Append(dataset,
                     [type |-> "scraped_data", page |-> p, url |-> pages[p].url,
                      interceptedRequests |-> interceptedRequests])
    /\ UNCHANGED <<script, run, events, continued, awaiting, analyzerVars,
                   scraperVars, interceptedRequests, pages>>

\* handlePageFunction call p returns after its last addRequest
ReturnPage(p) ==
    /\ script = "apify"
    /\ p \in OpenPages
    /\ Saved(p)
    /\ pages' = [pages EXCEPT ![p].open = FALSE]
    /\ UNCHANGED <<script, run, events, continued, awaiting, analyzerVars,
                   scraperVars, apifyVars>>

\* handlePageFunction call p throws at one of its awaits
ThrowPage(p) ==
    /\ script = "apify"
    /\ p \in OpenPages
    /\ pages' = [pages EXCEPT ![p].open = FALSE, ![p].failure = "thrown"]
    /\ UNCHANGED <<script, run, events, continued, awaiting, analyzerVars,
                   scraperVars, apifyVars>>

\* the calls that have thrown and whose request the crawler has neither put
\* back nor given up yet
ThrownPages == { p \in 1..Len(pages) : pages[p].failure = "thrown" }

\* failedRequestHandler for the request of call p, which the crawler calls in
\* a later turn when it gives the request up
FailedRequestHandler(p) ==
    /\ script = "apify"
    /\ p \in ThrownPages
    /\ pages' = [pages EXCEPT ![p].failure = "handled"]
    /\ dataset' = Append(dataset,
                     [type |-> "error", page |-> p, url |-> pages[p].url])
    /\ UNCHANGED <<script, run, events, continued, awaiting, analyzerVars,
                   scraperVars, interceptedRequests>>

CrawlSave == \E p \in OpenPages : SavePage(p)

CrawlReturn == \E p \in OpenPages : ReturnPage(p)

CrawlThrow == \E p \in OpenPages : ThrowPage(p)

CrawlGiveUp == \E p \in ThrownPages : FailedRequestHandler(p)

NextCrawl ==
    \/ HandlePage
    \/ CrawlRequest
    \/ CrawlResponse
    \/ CrawlResponseText
    \/ CrawlSave
    \/ CrawlReturn
    \/ CrawlThrow
    \/ CrawlGiveUp

SpecCrawl == InitCrawl /\ [][NextCrawl]_vars

----------------------------------------------------------------------------
(* Vocabulary of the properties *)

\* the delivered events of one kind, by identity
EventsOfKind(kind) == {i \in 1..Len(events) : events[i].kind = kind}

\* the entries of networkRequests with one type
OfType(type) == {k \in 1..Len(networkRequests) : networkRequests[k].type = type}

\* the requests an analyzer list has an entry for
RequestsIn(list) == {list[k].req : k \in 1..Len(list)}

\* the type stored in networkRequests for request req
StoredType(req) ==
    LET k == CHOOSE j \in 1..Len(networkRequests) : networkRequests[j].req = req
    IN  networkRequests[k].type

RECURSIVE SumOver(_, _)
SumOver(f, S) ==
    IF S = {} THEN 0
    ELSE LET x == CHOOSE y \in S : TRUE
         IN  f[x] + SumOver(f, S \ {x})

\* seq has no element twice
NoDuplicates(seq) == \A i, j \in 1..Len(seq) : i # j => seq[i] # seq[j]

\* the entries of a request-filled list are in the order of delivery
InRequestOrder(list) ==
    \A i, j \in 1..Len(list) : i < j => list[i].req < list[j].req

\* the entries of a response-filled list are in the order of delivery
InResponseOrder(list) ==
    \A i, j \in 1..Len(list) : i < j => list[i].res < list[j].res

IsWss(url) == StartsWith(url, "wss://")

----------------------------------------------------------------------------
(* C1 *)

\* C1 as stated: a captured request whose URL scheme is wss and whose path
\* contains /api/ is classified 'websocket'.
C1_WssApiIsWebsocket ==
    \A k \in 1..Len(networkRequests) :
        IsWss(networkRequests[k].url) /\ Includes(networkRequests[k].url, "/api/")
            => networkRequests[k].type = "websocket"

\* C1 amended: the path checks precede the protocol check.  A captured wss
\* request whose URL contains /api/ is classified 'api' (and one containing
\* /ajax/ 'ajax'); a wss request is classified 'websocket' exactly when its
\* URL contains neither.
C1_WssApiIsApi ==
    \A k \in 1..Len(networkRequests) :
        IsWss(networkRequests[k].url) =>
            networkRequests[k].type =
                IF Includes(networkRequests[k].url, "/api/") THEN "api"
                ELSE IF Includes(networkRequests[k].url, "/ajax/") THEN "ajax"
                ELSE "websocket"

C1_Witness ==
    \E k \in 1..Len(networkRequests) :
        /\ IsWss(networkRequests[k].url)
        /\ Includes(networkRequests[k].url, "/api/")
        /\ networkRequests[k].type = "api"

----------------------------------------------------------------------------
(* C2 *)

SpecCategories == {"api", "ajax", "websocket", "external", "static", "other"}

\* C2 as stated: every record of networkRequests carries a category of
\* {api, ajax, websocket, external, static, other}.
C2_TypeInSpecCategories ==
    \A k \in 1..Len(networkRequests) : networkRequests[k].type \in SpecCategories

\* C2 amended: every request event has exactly one record in networkRequests
\* and that record carries exactly one category, drawn from
\* {api, ajax, websocket, external, javascript, css, other}: static assets
\* are reported as 'javascript' or 'css', never as 'static'.
C2_TypeInCategories ==
    script = "analyzer" =>
        /\ \A k \in 1..Len(networkRequests) :
              /\ networkRequests[k].type \in Categories
              /\ networkRequests[k].type # "static"
        /\ \A i \in EventsOfKind("request") :
              Cardinality({k \in 1..Len(networkRequests) :
                              networkRequests[k].req = i}) = 1

C2_Witness ==
    /\ \E k \in 1..Len(networkRequests) : networkRequests[k].type = "javascript"
    /\ \E k \in 1..Len(networkRequests) : networkRequests[k].type = "css"

----------------------------------------------------------------------------
(* C3 *)

\* C3: after N request events the per-category counts of the stored records
\* sum to N, and a report generated then has summary.total_requests = N.
C3_CountsSumToN ==
    script = "analyzer" =>
        LET N == Cardinality(EventsOfKind("request"))
            count == [c \in Categories |-> Cardinality(OfType(c))]
        IN  /\ SumOver(count, Categories) = N
            /\ BuildReport.summary.total_requests = N

C3_Witness ==
    /\ script = "analyzer"
    /\ Cardinality(EventsOfKind("request")) = MaxEvents
    /\ Cardinality({networkRequests[k].type : k \in 1..Len(networkRequests)}) = MaxEvents
    /\ BuildReport.summary.total_requests = MaxEvents

----------------------------------------------------------------------------
(* C4 *)

\* C4 as stated: each summary counter equals the number of records of its
\* category, a request typed 'websocket' is in websocketConnections, one typed
\* 'api' or 'ajax' in apiCalls, one typed 'external' in externalSources, and
\* no list holds a record of another category.
C4_ListsFollowCategory ==
    script = "analyzer" =>
        /\ BuildReport.summary.api_calls = Cardinality(OfType("api") \cup OfType("ajax"))
        /\ BuildReport.summary.external_sources = Cardinality(OfType("external"))
        /\ BuildReport.summary.websocket_connections = Cardinality(OfType("websocket"))
        /\ \A k \in 1..Len(networkRequests) :
              LET r == networkRequests[k]
              IN  /\ r.req \in RequestsIn(apiCalls) <=> r.type \in {"api", "ajax"}
                  /\ r.req \in RequestsIn(externalSources) <=> r.type = "external"
                  /\ r.type = "websocket" =>
                        \E w \in 1..Len(websocketConnections) :
                            websocketConnections[w].url = r.url

\* C4 amended: the lists follow isAPICall and isExternalSource, not the
\* category.  api_calls is the number of captured requests whose URL satisfies
\* isAPICall and external_sources the number whose URL satisfies
\* isExternalSource; websocket_connections counts the Runtime.bindingCalled
\* events named 'websocket', and no request is ever added to
\* websocketConnections.  Every request typed 'api' or 'ajax' is in apiCalls
\* and every request typed 'external' is in externalSources, but both lists
\* also hold requests of other categories.
C4_ListsFollowPredicates ==
    script = "analyzer" =>
        /\ BuildReport.summary.api_calls =
              Cardinality({k \in 1..Len(networkRequests) :
                              isAPICall(networkRequests[k].url)})
        /\ BuildReport.summary.external_sources =
              Cardinality({k \in 1..Len(networkRequests) :
                              isExternalSource(networkRequests[k].url)})
        /\ BuildReport.summary.websocket_connections =
              Cardinality({i \in EventsOfKind("binding") : events[i].name = "websocket"})
        /\ \A w \in 1..Len(websocketConnections) :
              events[websocketConnections[w].ev].kind = "binding"
        /\ \A k \in 1..Len(networkRequests) :
              LET r == networkRequests[k]
              IN  /\ r.type \in {"api", "ajax"} => r.req \in RequestsIn(apiCalls)
                  /\ r.type = "external" => r.req \in RequestsIn(externalSources)
                  /\ r.req \in RequestsIn(apiCalls) <=> isAPICall(r.url)
                  /\ r.req \in RequestsIn(externalSources) <=> isExternalSource(r.url)

\* a request typed 'websocket' with websocketConnections empty, and a request
\* typed 'external' that is in apiCalls as well
C4_Witness ==
    /\ websocketConnections = << >>
    /\ \E k \in 1..Len(networkRequests) : networkRequests[k].type = "websocket"
    /\ \E k \in 1..Len(networkRequests) :
          /\ networkRequests[k].type = "external"
          /\ networkRequests[k].req \in RequestsIn(apiCalls)
          /\ networkRequests[k].req \in RequestsIn(externalSources)

----------------------------------------------------------------------------
(* C5 *)

\* the step delivers a request event to the analyzer
RequestStep ==
    /\ script = "analyzer"
    /\ Len(events') = Len(events) + 1
    /\ events'[Len(events')].kind = "request"

\* C5 as stated: once the report has been produced, a further request event
\* is refused (nothing is added to the capture lists) and the returned report
\* reads as it did when it was returned.
C5_ReportFrozen ==
    [][(report.generated /\ RequestStep) =>
          /\ networkRequests' = networkRequests
          /\ apiCalls' = apiCalls
          /\ externalSources' = externalSources
          /\ ReportValue' = ReportValue]_vars

\* C5 amended: once the report has been produced, a further request event is
\* handled like any other: no error is signalled, the request is logged and
\* continued.  The returned report keeps its summary counts, its
\* external_providers and its raw_data_sources, but its network_analysis lists
\* and odds_data are the analyzer's own arrays and show the entries added
\* since.
C5_LateRequestLogged ==
    [][(report.generated /\ RequestStep) =>
          /\ Len(networkRequests') = Len(networkRequests) + 1
          /\ networkRequests'[Len(networkRequests')].req = Len(events')
          /\ continued'[Len(events')] = 1
          /\ ReportValue'.summary = ReportValue.summary
          /\ ReportValue'.external_providers = ReportValue.external_providers
          /\ ReportValue'.raw_data_sources = ReportValue.raw_data_sources
          /\ ReportValue'.network_analysis.api_calls = apiCalls'
          /\ ReportValue'.network_analysis.external_sources = externalSources'
          /\ ReportValue'.network_analysis.websocket_connections = websocketConnections'
          /\ ReportValue'.odds_data = oddsData']_vars

\* a request was logged after the report was returned, and the report's
\* api_calls list is longer than its api_calls count
C5_Witness ==
    /\ report.generated
    /\ Len(networkRequests) > report.summary.total_requests
    /\ Len(ReportValue.network_analysis.api_calls) > ReportValue.summary.api_calls

----------------------------------------------------------------------------
(* C6 *)

\* C6: in each of the three scripts every intercepted request has been told
\* to continue exactly once when its handler returns, whatever lists the
\* handler added it to; continue is called on nothing but requests.
C6_ContinuedExactlyOnce ==
    /\ Len(continued) = Len(events)
    /\ \A i \in 1..Len(events) :
          continued[i] = IF events[i].kind = "request" THEN 1 ELSE 0

\* a run with a request that entered no list beside the log and a request
\* that entered every list, both continued
C6_Witness ==
    /\ script = "analyzer"
    /\ \E i, j \in EventsOfKind("request") :
          /\ i \notin RequestsIn(apiCalls) \cup RequestsIn(externalSources)
          /\ j \in RequestsIn(apiCalls) \cap RequestsIn(externalSources)
          /\ continued[i] = 1
          /\ continued[j] = 1

----------------------------------------------------------------------------
(* C7 *)

ProvidersOf(list) == {list[k].provider : k \in 1..Len(list)}

\* C7: the report's external_providers holds each provider name of the
\* captured external requests exactly once.
C7_ProvidersDeduplicated ==
    script = "analyzer" =>
        /\ NoDuplicates(BuildReport.external_providers)
        /\ {BuildReport.external_providers[k] :
               k \in 1..Len(BuildReport.external_providers)}
             = ProvidersOf(externalSources)
        /\ report.generated => NoDuplicates(report.external_providers)

\* two requests to different hosts of one provider, one entry in the report
C7_Witness ==
    /\ Len(externalSources) = 2
    /\ externalSources[1].url # externalSources[2].url
    /\ externalSources[1].provider = externalSources[2].provider
    /\ report.generated
    /\ Len(report.external_providers) = 1

----------------------------------------------------------------------------
(* C8 *)

\* C8 as stated: every entry of externalSources (a request with a provider
\* name) belongs to a request whose category is 'external'.
C8_ProviderOnlyForExternal ==
    \A k \in 1..Len(externalSources) : StoredType(externalSources[k].req) = "external"

\* C8 amended: a provider name is attached exactly to the requests whose URL
\* satisfies isExternalSource.  Such a request is typed 'external' unless its
\* URL contains /api/, /ajax/, ws:// or wss://, in which case it is typed
\* 'api', 'ajax' or 'websocket' and has an entry with a provider all the same;
\* no request typed 'javascript', 'css' or 'other' has one.
C8_ProviderOnlyForAllowListed ==
    \A k \in 1..Len(networkRequests) :
        LET r == networkRequests[k]
            earlier == \/ Includes(r.url, "/api/") \/ Includes(r.url, "/ajax/")
                       \/ Includes(r.url, "ws://") \/ Includes(r.url, "wss://")
        IN  /\ r.req \in RequestsIn(externalSources) <=> isExternalSource(r.url)
            /\ r.req \in RequestsIn(externalSources) =>
                  /\ r.type \in {"external", "api", "ajax", "websocket"}
                  /\ r.type = "external" <=> ~earlier
            /\ r.type = "external" => r.req \in RequestsIn(externalSources)

C8_Witness ==
    \E k \in 1..Len(externalSources) :
        /\ StoredType(externalSources[k].req) = "api"
        /\ externalSources[k].provider = "Sportradar/Betradar"

----------------------------------------------------------------------------
(* C9 *)

\* C9 as stated: every list, request-filled or response-filled, holds its
\* records in the order in which the driver delivered their events.
C9_AllListsInDeliveryOrder ==
    /\ InRequestOrder(networkRequests)
    /\ InRequestOrder(apiCalls)
    /\ InRequestOrder(externalSources)
    /\ InRequestOrder(apiEndpoints)
    /\ InRequestOrder(interceptedRequests)
    /\ InResponseOrder(oddsData)
    /\ InResponseOrder(data)
    /\ InResponseOrder(dataset)

\* the step leaves a response-filled list alone or appends to it the record
\* of a response whose response.text() settles in this step
AppendsSettled(before, after) ==
    \/ after = before
    \/ /\ Len(after) = Len(before) + 1
       /\ SubSeq(after, 1, Len(before)) = before
       /\ after[Len(after)].res \in awaiting \ awaiting'

\* C9 amended: the request-filled lists (networkRequests, apiCalls,
\* externalSources, the scraper's apiEndpoints, the actor's
\* interceptedRequests) hold their records in delivery order.  The
\* response-filled lists (oddsData, the scraper's data, the Apify dataset)
\* hold them in the order in which the handlers' response.text() calls
\* settled, which need not be the delivery order.
C9_RequestListsInDeliveryOrder ==
    /\ [](/\ InRequestOrder(networkRequests)
          /\ InRequestOrder(apiCalls)
          /\ InRequestOrder(externalSources)
          /\ InRequestOrder(apiEndpoints)
          /\ InRequestOrder(interceptedRequests))
    /\ [][/\ AppendsSettled(oddsData, oddsData')
          /\ AppendsSettled(data, data')
          /\ AppendsSettled(dataset, dataset')]_vars

\* two responses stored against the order of their delivery
C9_ReorderedWitness ==
    /\ Len(oddsData) = 2
    /\ oddsData[1].res > oddsData[2].res

----------------------------------------------------------------------------
(* C10 *)

\* C10: every api_response record of the Apify dataset has as body a prefix
\* of the received body, the whole body when it has at most 10,000
\* characters and its first 10,000 characters otherwise.
C10_BodyTruncated ==
    \A k \in 1..Len(dataset) :
        dataset[k].type = "api_response" =>
            LET received == events[dataset[k].res].body
            IN  /\ StartsWith(received, dataset[k].body)
                /\ Len(dataset[k].body) <= 10000
                /\ Len(dataset[k].body) = Min(Len(received), 10000)

\* a body of 50,000 characters stored as its first 10,000
C10_Witness ==
    \E k \in 1..Len(dataset) :
        /\ dataset[k].type = "api_response"
        /\ Len(events[dataset[k].res].body) = 50000
        /\ Len(dataset[k].body) = 10000

----------------------------------------------------------------------------
(* C12 *)

\* the keys of identifyProvider's lookup
ProviderKeys == << "sportradar", "betradar", "lsports", "betconstruct",
                   "kambi", "sbtech", "odds-api" >>

ProviderNames == { "Sportradar/Betradar", "LSports", "BetConstruct", "Kambi",
                   "SBTech", "The Odds API", "Unknown Provider" }

\* C12: every request whose URL isExternalSource accepts is stored in
\* externalSources with a provider name; when the URL matches no key of the
\* lookup the name is the fallback 'Unknown Provider'.
C12_ProviderAlwaysResolved ==
    script = "analyzer" =>
        \A k \in 1..Len(networkRequests) :
            isExternalSource(networkRequests[k].url) =>
                \E e \in 1..Len(externalSources) :
                    /\ externalSources[e].req = networkRequests[k].req
                    /\ externalSources[e].provider \in ProviderNames
                    /\ (\A j \in 1..Len(ProviderKeys) :
                           ~Includes(networkRequests[k].url, ProviderKeys[j]))
                         => externalSources[e].provider = "Unknown Provider"

\* pinnacle.com and oddsapi.io requests stored with the fallback name
C12_Witness ==
    /\ \E e \in 1..Len(externalSources) :
          /\ externalSources[e].url = UrlPinnacle
          /\ externalSources[e].provider = "Unknown Provider"
    /\ \E e \in 1..Len(externalSources) :
          /\ externalSources[e].url = UrlOddsApiIo
          /\ externalSources[e].provider = "Unknown Provider"

----------------------------------------------------------------------------
(* C13 *)

\* the provider stored for request req
StoredProvider(req) ==
    LET e == CHOOSE j \in 1..Len(externalSources) : externalSources[j].req = req
    IN  externalSources[e].provider

\* the first position of character c in s from position from on, or
\* Len(s) + 1 when there is none
FirstOf(s, c, from) ==
    LET at == { i \in from..Len(s) : SubSeq(s, i, i) \in c }
    IN  IF at = {} THEN Len(s) + 1 ELSE CHOOSE i \in at : \A j \in at : i <= j

\* the host of url, as new URL(url).hostname gives it: what stands after the
\* "://" of the scheme (and after an "@", if any) up to the first of : / ? #
HostOf(url) ==
    LET marks == { i \in 1..Len(url) - 2 : SubSeq(url, i, i + 2) = "://" }
        from == IF marks = {} THEN 1
                ELSE (CHOOSE i \in marks : \A j \in marks : i <= j) + 3
        stop == FirstOf(url, {"/", "?", "#"}, from) - 1
        ats == { i \in from..stop : SubSeq(url, i, i) = "@" }
        start == IF ats = {} THEN from
                 ELSE (CHOOSE i \in ats : \A j \in ats : i >= j) + 1
        colon == FirstOf(url, {":"}, start)
    IN  SubSeq(url, start, Min(stop, colon - 1))

\* url is addressed to a known provider host: its host is one of the domains
\* of isExternalSource's list or a subdomain of one
ToProviderHost(url) ==
    \E k \in 1..Len(externalProviders) :
        \/ HostOf(url) = externalProviders[k]
        \/ EndsWith(HostOf(url), "." \o externalProviders[k])

\* the lookup table of provider names, key by key in its order
ProviderTable ==
    << <<"sportradar", "Sportradar/Betradar">>, <<"betradar", "Sportradar/Betradar">>,
       <<"lsports", "LSports">>, <<"betconstruct", "BetConstruct">>,
       <<"kambi", "Kambi">>, <<"sbtech", "SBTech">>, <<"odds-api", "The Odds API">> >>

\* the name the lookup table has for url: that of its first key occurring in
\* url, 'Unknown Provider' when none occurs
TableName(url) ==
    LET hits == { i \in 1..Len(ProviderTable) : Includes(url, ProviderTable[i][1]) }
    IN  IF hits = {} THEN "Unknown Provider"
        ELSE ProviderTable[CHOOSE i \in hits : \A j \in hits : i <= j][2]

\* C13 as stated: every request to a known external provider host is
\* classified 'external' and stored with the provider name from the lookup
\* table, and https://api.sportradar.com/odds/v1/match/5 yields category
\* 'external' and provider name exactly "Sportradar".
C13_SportradarNamedSportradar ==
    \A k \in 1..Len(networkRequests) :
        LET r == networkRequests[k]
        IN  /\ ToProviderHost(r.url) =>
                  /\ r.type = "external"
                  /\ r.req \in RequestsIn(externalSources)
                  /\ StoredProvider(r.req) = TableName(r.url)
            /\ r.url = UrlSportradar =>
                  /\ r.type = "external"
                  /\ r.req \in RequestsIn(externalSources)
                  /\ StoredProvider(r.req) = "Sportradar"

\* C13 amended: a request to a known provider host whose URL contains none
\* of /api/, /ajax/, ws://, wss:// and betika.com is classified 'external'
\* and stored with the name the lookup table has for the URL;
\* https://api.sportradar.com/odds/v1/match/5 yields category 'external' and
\* provider name exactly "Sportradar/Betradar".
C13_SportradarNamedSportradarBetradar ==
    \A k \in 1..Len(networkRequests) :
        LET r == networkRequests[k]
        IN  /\ (ToProviderHost(r.url) /\ ~Includes(r.url, "/api/")
                   /\ ~Includes(r.url, "/ajax/") /\ ~Includes(r.url, "ws://")
                   /\ ~Includes(r.url, "wss://") /\ ~Includes(r.url, "betika.com")) =>
                  /\ r.type = "external"
                  /\ r.req \in RequestsIn(externalSources)
                  /\ StoredProvider(r.req) = TableName(r.url)
            /\ r.url = UrlSportradar =>
                  /\ r.type = "external"
                  /\ r.req \in RequestsIn(externalSources)
                  /\ StoredProvider(r.req) = "Sportradar/Betradar"

\* the example URL stored as 'external' under the table's name, next to a
\* request to a provider host that the table has no key for
C13_Witness ==
    /\ \E k \in 1..Len(externalSources) :
          /\ externalSources[k].url = UrlSportradar
          /\ externalSources[k].provider = "Sportradar/Betradar"
          /\ StoredType(externalSources[k].req) = "external"
    /\ \E k \in 1..Len(externalSources) :
          /\ externalSources[k].url = UrlPinnacle
          /\ externalSources[k].provider = "Unknown Provider"
          /\ StoredType(externalSources[k].req) = "external"

----------------------------------------------------------------------------
(* C14 *)

\* the live indicator as the claim defines it
LiveByKeywords(url) ==
    \/ Includes(url, "live") \/ Includes(url, "update")
    \/ Includes(url, "ws://") \/ Includes(url, "wss://")
    \/ categorizeRequest(url) = "websocket"

\* C14 as stated: real_time is true exactly when the URL contains live,
\* update, ws:// or wss:// or the category is websocket, whatever the bucket;
\* wss://live.example.com/odds is 'websocket' with live indicator true.
C14_LiveByKeywords ==
    script = "analyzer" =>
        /\ \A k \in 1..Len(BuildReport.raw_data_sources) :
              BuildReport.raw_data_sources[k].real_time
                  = LiveByKeywords(BuildReport.raw_data_sources[k].url)
        /\ \A k \in 1..Len(networkRequests) :
              networkRequests[k].url = UrlWssLive =>
                  /\ networkRequests[k].type = "websocket"
                  /\ \E j \in 1..Len(BuildReport.raw_data_sources) :
                        /\ BuildReport.raw_data_sources[j].url = UrlWssLive
                        /\ BuildReport.raw_data_sources[j].real_time

\* C14 amended: real_time exists only on the entries of raw_data_sources and
\* depends on the bucket, not on the category.  For an external source it is
\* true exactly when the URL contains ws:// or wss://; for a betika.com API
\* call it is true exactly when the URL contains live or update.
\* wss://live.example.com/odds is category 'websocket' but, being neither an
\* external source nor a betika.com API call, has no raw_data_sources entry
\* and so no live indicator.
C14_LiveByBucket ==
    script = "analyzer" =>
        /\ \A k \in 1..Len(BuildReport.raw_data_sources) :
              LET src == BuildReport.raw_data_sources[k]
              IN  src.real_time =
                    IF src.provider = "Betika Internal"
                    THEN Includes(src.url, "live") \/ Includes(src.url, "update")
                    ELSE Includes(src.url, "ws://") \/ Includes(src.url, "wss://")
        /\ \A k \in 1..Len(networkRequests) :
              networkRequests[k].url = UrlWssLive =>
                  /\ networkRequests[k].type = "websocket"
                  /\ \A j \in 1..Len(BuildReport.raw_data_sources) :
                        BuildReport.raw_data_sources[j].url # UrlWssLive

\* an external source with 'live' in its URL reported as not real-time, and
\* a betika.com API call over wss reported as not real-time
C14_Witness ==
    /\ \E j \in 1..Len(BuildReport.raw_data_sources) :
          /\ BuildReport.raw_data_sources[j].url = UrlLiveExternal
          /\ ~BuildReport.raw_data_sources[j].real_time
    /\ \E j \in 1..Len(BuildReport.raw_data_sources) :
          /\ BuildReport.raw_data_sources[j].url = UrlWssBetika
          /\ ~BuildReport.raw_data_sources[j].real_time

----------------------------------------------------------------------------
(* C16 *)

\* the scraped_data records of the dataset
ScrapedData == { k \in 1..Len(dataset) : dataset[k].type = "scraped_data" }

\* C16: the scraped_data record saved for a page holds in
\* interceptedRequests only requests intercepted on that page.
C16_PageOwnsItsRequests ==
    \A k \in ScrapedData :
        \A j \in 1..Len(dataset[k].interceptedRequests) :
            dataset[k].interceptedRequests[j].req \in pages[dataset[k].page].seen

----------------------------------------------------------------------------
(* C17 *)

\* r, a report as its reader sees it, is consistent with itself and with
\* the API calls it lists
ConsistentReport(r) ==
    /\ r.summary.api_calls = Len(r.network_analysis.api_calls)
    /\ r.summary.external_sources = Len(r.network_analysis.external_sources)
    /\ r.summary.websocket_connections = Len(r.network_analysis.websocket_connections)
    /\ r.summary.odds_data_found = Len(r.odds_data)
    /\ NoDuplicates(r.external_providers)
    /\ { r.external_providers[k] : k \in 1..Len(r.external_providers) }
         = ProvidersOf(r.network_analysis.external_sources)
    /\ Len(r.raw_data_sources)
         = Len(r.network_analysis.external_sources)
           + Cardinality({ k \in 1..Len(r.network_analysis.api_calls) :
                             Includes(r.network_analysis.api_calls[k].url, "betika.com") })
    /\ \A k \in 1..Len(r.network_analysis.external_sources) :
          r.raw_data_sources[k].url = r.network_analysis.external_sources[k].url

\* C17: whenever generateAnalysisReport is called, after any prefix of
\* request, response and websocket events, the report it returns has every
\* summary count equal to the length of the corresponding list of the same
\* report, external_providers the set of provider values of
\* external_sources, and in raw_data_sources one entry per external source
\* plus one per apiCalls entry whose URL contains betika.com.
C17_ReturnedReportConsistent ==
    [][(~report.generated /\ report'.generated) =>
          /\ ConsistentReport(ReportValue')
          /\ ReportValue'.summary.total_requests = Len(networkRequests)]_vars

\* a report returned after one request, while a response handler awaits its
\* body
C17_Witness ==
    /\ report.generated
    /\ awaiting # {}
    /\ ConsistentReport(ReportValue)
    /\ report.summary.total_requests = 1
    /\ Len(report.raw_data_sources) = 1

----------------------------------------------------------------------------
(* C18 *)

\* the lists the request and binding handlers fill
requestLists == <<networkRequests, apiCalls, externalSources,
                  websocketConnections, apiEndpoints, interceptedRequests>>

\* the lists the response handlers fill
responseLists == <<oddsData, data, dataset>>

\* C18 as stated: while a response handler is between its start and its last
\* state update, awaiting response.text(), no other handler invocation runs
\* or changes the capture lists.
C18_NoHandlerWhileAwaiting ==
    [][awaiting # {} =>
          /\ events' = events
          /\ requestLists' = requestLists]_vars

\* C18 amended: request and binding handlers run to completion in one
\* uninterrupted step.  A response handler does not: it is suspended at its
\* await of response.text(), and while it is suspended other request,
\* response and binding handlers run and change the capture lists.  The
\* step that delivers an event changes no list the response handlers fill,
\* and the step that resumes one response handler changes no list the
\* request and binding handlers fill.
C18_HandlersInterleaveAtAwait ==
    [][/\ events' # events =>
             /\ Len(events') = Len(events) + 1
             /\ awaiting \subseteq awaiting'
             /\ awaiting' \subseteq awaiting \cup {Len(events')}
             /\ responseLists' = responseLists
       /\ (events' = events /\ awaiting' # awaiting) =>
             /\ \E id \in awaiting : awaiting' = awaiting \ {id}
             /\ requestLists' = requestLists]_vars

\* a response handler is suspended and a request delivered after its
\* response has been handled and logged
C18_Witness ==
    \E id \in awaiting :
        \/ \E k \in 1..Len(networkRequests) : networkRequests[k].req > id
        \/ \E k \in 1..Len(apiEndpoints) : apiEndpoints[k].req > id
        \/ \E k \in 1..Len(interceptedRequests) : interceptedRequests[k].req > id

----------------------------------------------------------------------------
(* C19 *)

\* the declared content type indicates JSON or text
TextualContentType(contentType) ==
    Includes(contentType, "json") \/ Includes(contentType, "text")

\* the api_response records of the dataset
ApiResponses == { k \in 1..Len(dataset) : dataset[k].type = "api_response" }

\* C19 as stated: no entry is added to oddsData, and none stored as
\* api_response, for a response whose content-type is not JSON or text,
\* whatever its URL.
C19_OnlyTextualStored ==
    /\ \A k \in 1..Len(oddsData) :
          TextualContentType(events[oddsData[k].res].contentType)
    /\ \A k \in ApiResponses :
          TextualContentType(events[dataset[k].res].contentType)

\* C19 amended: the content type is one of two alternative conditions.  An
\* entry is added to oddsData only for a response whose URL is an API call
\* or whose content-type contains application/json or text/json, and whose
\* body parses as JSON and contains an odds keyword; an api_response record
\* is stored only for a response whose URL contains api, odds or ajax or
\* whose content-type contains json.  A response at such a URL is stored
\* whatever its content type, and a text response elsewhere is not stored.
C19_StoredByUrlOrJsonType ==
    /\ \A k \in 1..Len(oddsData) :
          LET e == events[oddsData[k].res]
          IN  /\ isAPICall(e.url) \/ isJSONResponse(e.contentType)
              /\ isJSONContent(e.body)
              /\ containsOddsData(e.body)
    /\ \A k \in ApiResponses :
          LET e == events[dataset[k].res]
          IN  \/ Includes(e.url, "api") \/ Includes(e.url, "odds")
              \/ Includes(e.url, "ajax") \/ Includes(e.contentType, "json")

\* an application/octet-stream response at an API URL stored in oddsData
C19_Witness ==
    \E k \in 1..Len(oddsData) :
        /\ events[oddsData[k].res].contentType = "application/octet-stream"
        /\ isAPICall(events[oddsData[k].res].url)

----------------------------------------------------------------------------
(* C20 *)

\* the host of url: what stands between "://" and the next of / ? # :
Host(url) ==
    LET marks == { i \in 1..Len(url) - 2 : SubSeq(url, i, i + 2) = "://" }
        start == IF marks = {} THEN 1
                 ELSE (CHOOSE i \in marks : \A j \in marks : i <= j) + 3
        ends == { i \in start..Len(url) : SubSeq(url, i, i) \in {"/", "?", "#", ":"} }
        stop == IF ends = {} THEN Len(url)
                ELSE (CHOOSE i \in ends : \A j \in ends : i <= j) - 1
    IN  SubSeq(url, start, stop)

\* host is domain or one of its subdomains
HostWithin(host, domain) ==
    \/ host = domain
    \/ /\ Len(host) > Len(domain)
       /\ SubSeq(host, Len(host) - Len(domain), Len(host)) = "." \o domain

\* the requests treated as external: typed 'external' or stored in
\* externalSources
TreatedAsExternal ==
    { k \in 1..Len(networkRequests) :
        \/ networkRequests[k].type = "external"
        \/ networkRequests[k].req \in RequestsIn(externalSources) }

\* C20 as stated: a request is treated as external only if its host is in
\* the allow-list and is not the site's own domain.
C20_ExternalOnlyByHost ==
    \A k \in TreatedAsExternal :
        LET host == Host(networkRequests[k].url)
        IN  /\ \E j \in 1..Len(externalProviders) : HostWithin(host, externalProviders[j])
            /\ ~HostWithin(host, "betika.com")

\* C20 amended: a request is treated as external only if its URL, as a
\* string, contains one of the allow-list domains and does not contain
\* betika.com: no URL containing betika.com is ever classified 'external'
\* or added to externalSources, and no URL containing none of the
\* allow-list domains is.  The test is on the whole URL, not on the host.
C20_ExternalOnlyBySubstring ==
    \A k \in TreatedAsExternal :
        /\ ~Includes(networkRequests[k].url, "betika.com")
        /\ \E j \in 1..Len(externalProviders) :
              Includes(networkRequests[k].url, externalProviders[j])

\* a betika.com URL naming a provider in its path logged and not treated as
\* external, and a URL naming a provider only in its query treated as
\* external
C20_Witness ==
    /\ \E k \in 1..Len(networkRequests) :
          /\ networkRequests[k].url = UrlOwnWithProvider
          /\ k \notin TreatedAsExternal
    /\ \E k \in TreatedAsExternal :
          /\ networkRequests[k].url = UrlRefProvider
          /\ Host(UrlRefProvider) = "tracker.example.com"

----------------------------------------------------------------------------
(* C21 *)

StaticExtensions == { ".js", ".css", ".png", ".jpg", ".jpeg", ".gif", ".svg", ".ico" }

\* the types categorizeRequest gives to static assets
StaticTypes == { "javascript", "css" }

\* none of the rules before the extension rules matches url
NoEarlierRule(url) ==
    /\ ~Includes(url, "/api/") /\ ~Includes(url, "/ajax/")
    /\ ~Includes(url, "ws://") /\ ~Includes(url, "wss://")
    /\ ~isExternalSource(url)

\* C21 as stated: when no earlier rule matches, a request is classified as a
\* static asset exactly when its URL path ends in a static-asset extension;
\* a URL that merely contains '.js' or '.css' elsewhere is 'other'.
C21_StaticByPathExtension ==
    \A k \in 1..Len(networkRequests) :
        LET r == networkRequests[k]
        IN  NoEarlierRule(r.url) =>
              /\ (r.type \in StaticTypes)
                   = (\E ext \in StaticExtensions : EndsWith(PathOf(r.url), ext))
              /\ (r.type \notin StaticTypes) => r.type = "other"

\* C21 amended: when no earlier rule matches, a request is classified
\* 'javascript' exactly when its URL contains '.js' anywhere, otherwise 'css'
\* exactly when it contains '.css' anywhere, otherwise 'other'.  The end of
\* the path is not examined and there is no rule for images: a path ending
\* in .json is 'javascript', and a path ending in .png is 'other'.
C21_StaticBySubstring ==
    \A k \in 1..Len(networkRequests) :
        LET r == networkRequests[k]
        IN  NoEarlierRule(r.url) =>
              /\ (r.type = "javascript") = Includes(r.url, ".js")
              /\ (r.type = "css") = (~Includes(r.url, ".js") /\ Includes(r.url, ".css"))
              /\ (r.type = "other") = (~Includes(r.url, ".js") /\ ~Includes(r.url, ".css"))
              /\ EndsWith(PathOf(r.url), ".json") => r.type = "javascript"
              /\ EndsWith(PathOf(r.url), ".png") => r.type = "other"

\* a .json request typed 'javascript' and an image request typed 'other'
C21_Witness ==
    /\ \E k \in 1..Len(networkRequests) :
          /\ networkRequests[k].url = UrlJson
          /\ networkRequests[k].type = "javascript"
    /\ \E k \in 1..Len(networkRequests) :
          /\ networkRequests[k].url = UrlImage
          /\ networkRequests[k].type = "other"

----------------------------------------------------------------------------
(* C22 *)

\* the statements of analyzeBetikaAPIs that have thrown
Failed == { run.steps[k].op : k \in { j \in 1..Len(run.steps) : ~run.steps[j].ok } }

\* the operations of step
Done == { run.steps[k].op : k \in 1..Len(run.steps) }

\* the awaits of setupNetworkInterception
SetupSteps == { "setRequestInterception", "createCDPSession", "Runtime.enable" }

\* C22: an error thrown by setupNetworkInterception, analyzeMainPage,
\* analyzeSportsPages, analyzeAPIEndpoints, generateAnalysisReport or
\* saveResults never propagates out of analyzeBetikaAPIs (the statement that
\* threw to the caller is the last one logged), and no response whose
\* handler failed has an entry in oddsData.
C22_ErrorsNeverPropagate ==
    /\ run.thrown =>
          run.steps[Len(run.steps)].op \notin
              (SetupSteps \cup { "analyzeMainPage", "analyzeAPIEndpoints",
                                 "generateAnalysisReport", "writeJson",
                                 "writeSummary" }
                          \cup { sportsUrls[i] : i \in 1..Len(sportsUrls) })
    /\ \A k \in 1..Len(oddsData) : JSONParses(events[oddsData[k].res].body)

----------------------------------------------------------------------------
(* C24 *)

\* C24: when analyzeBetikaAPIs is over and had launched a browser, the
\* browser has been closed exactly once.
C24_BrowserClosedOnce ==
    (run.pc = "returned" /\ "launch" \in Done \ Failed) =>
        /\ run.browser = "closed"
        /\ run.closes = 1

----------------------------------------------------------------------------
(* C25 *)

\* the operations of the steps from a to b
Ops(a, b) == [k \in 1..(b - a + 1) |-> run.steps[a + k - 1].op]

\* the statements before the try block
Preamble == << "launch", "newPage", "setRequestInterception", "createCDPSession",
               "Runtime.enable" >>

\* the phases before saveResults, in the order of the try block
Phases == << "analyzeMainPage" >> \o sportsUrls
          \o << "analyzeAPIEndpoints", "generateAnalysisReport" >>

\* C25: a result file is written only after analyzeMainPage,
\* analyzeSportsPages, analyzeAPIEndpoints and generateAnalysisReport have
\* completed in that order without throwing; if analyzeMainPage throws, no
\* later phase runs and no result file is written.
C25_WrittenOnlyAfterPhases ==
    /\ ("writeJson" \in Done \/ run.files # << >>) =>
          /\ Len(run.steps) >= Len(Preamble) + Len(Phases)
          /\ Ops(Len(Preamble) + 1, Len(Preamble) + Len(Phases)) = Phases
          /\ Failed \cap {"analyzeMainPage", "analyzeAPIEndpoints",
                          "generateAnalysisReport"} = {}
          /\ report.generated
    /\ "analyzeMainPage" \in Failed =>
          /\ run.files = << >>
          /\ ~report.generated
          /\ Done \cap ({ "analyzeAPIEndpoints", "generateAnalysisReport",
                          "writeJson", "writeSummary" }
                        \cup { sportsUrls[i] : i \in 1..Len(sportsUrls) }) = {}

\* both files written after all phases
C25_Witness ==
    /\ Len(run.files) = 2
    /\ Ops(Len(Preamble) + 1, Len(Preamble) + Len(Phases)) = Phases
    /\ run.pc = "returned"

----------------------------------------------------------------------------
(* C26 *)

\* the sports URLs attempted, in the order of the attempts
RECURSIVE AttemptsIn(_)
AttemptsIn(steps) ==
    IF steps = << >> THEN << >>
    ELSE LET front == AttemptsIn(SubSeq(steps, 1, Len(steps) - 1))
             last == steps[Len(steps)]
         IN  IF \E i \in 1..Len(sportsUrls) : last.op = sportsUrls[i]
             THEN Append(front, last.op)
             ELSE front

\* C26: a failure on one sports URL does not stop the run: the URLs are
\* attempted once each in list order, analyzeSportsPages does not throw, and
\* analyzeAPIEndpoints and the report generation follow.
C26_SportsFailuresContained ==
    LET attempts == AttemptsIn(run.steps)
    IN  /\ Len(attempts) <= Len(sportsUrls)
        /\ attempts = SubSeq(sportsUrls, 1, Len(attempts))
        /\ (attempts # << >> /\ run.pc # "sports") => attempts = sportsUrls
        /\ run.thrown =>
              \A i \in 1..Len(sportsUrls) :
                  run.steps[Len(run.steps)].op # sportsUrls[i]
        /\ (attempts # << >> /\ run.pc = "returned") =>
              /\ {"analyzeAPIEndpoints", "generateAnalysisReport"} \subseteq Done
              /\ report.generated

\* the first and the third sports URL failed, and the run went on to write
\* its files
C26_Witness ==
    /\ run.pc = "returned"
    /\ {sportsUrls[1], sportsUrls[3]} \subseteq Failed
    /\ sportsUrls[2] \in Done \ Failed
    /\ Len(run.files) = 2

----------------------------------------------------------------------------
(* C28 *)

\* C28: the markdown summary and the JSON results file agree in every
\* count, in the provider list and in the raw data sources, also when events
\* arrive between the two writes.
C28_FilesAgree ==
    Len(run.files) = 2 =>
        LET json == run.files[1].content
            md == run.files[2].content
        IN  /\ md.counts = json.summary
            /\ md.providers = json.external_providers
            /\ Len(md.sources) = Len(json.raw_data_sources)
            /\ \A k \in 1..Len(md.sources) :
                  /\ md.sources[k].provider = json.raw_data_sources[k].provider
                  /\ md.sources[k].data_type = json.raw_data_sources[k].data_type
                  /\ md.sources[k].access_method = json.raw_data_sources[k].access_method

\* both files are written and a request was captured while saveResults was
\* awaiting the write of the JSON file: after the report was generated and
\* before the first write resolved
C28_Witness ==
    /\ Len(run.files) = 2
    /\ \E k \in 1..Len(networkRequests) :
          /\ k > run.files[1].content.summary.total_requests
          /\ networkRequests[k].req <= run.files[1].at

----------------------------------------------------------------------------
(* C27 *)

\* the results files the scraper has written
ResultsFiles == { k \in 1..Len(run.files) :
                    run.files[k].name = "betika-scraper-results.json" }

----------------------------------------------------------------------------
(* C29 *)

\* list a is the beginning of list b
IsPrefix(a, b) == Len(a) <= Len(b) /\ SubSeq(b, 1, Len(a)) = a

\* C29: the analyzer's capture lists are append-only and nested: no step
\* removes or rewrites an entry; a request event adds exactly one entry to
\* networkRequests and at most one each to apiCalls and externalSources;
\* apiCalls and externalSources are never longer than networkRequests, and
\* every request stored with type 'external' has an entry in
\* externalSources.
C29_AppendOnlyNested ==
    [][/\ IsPrefix(networkRequests, networkRequests')
       /\ IsPrefix(apiCalls, apiCalls')
       /\ IsPrefix(externalSources, externalSources')
       /\ IsPrefix(oddsData, oddsData')
       /\ IsPrefix(websocketConnections, websocketConnections')
       /\ (events' # events /\ events'[Len(events')].kind = "request") =>
             /\ Len(networkRequests') = Len(networkRequests) + 1
             /\ Len(apiCalls') <= Len(apiCalls) + 1
             /\ Len(externalSources') <= Len(externalSources) + 1
       /\ (events' # events /\ events'[Len(events')].kind # "request") =>
             /\ networkRequests' = networkRequests
             /\ apiCalls' = apiCalls
             /\ externalSources' = externalSources
       /\ Len(apiCalls') <= Len(networkRequests')
       /\ Len(externalSources') <= Len(networkRequests')
       /\ \A k \in 1..Len(networkRequests') :
             networkRequests'[k].type = "external" =>
                 networkRequests'[k].req \in RequestsIn(externalSources')]_vars

\* two requests logged, one of them an API call and the other external, and
\* typed so
C29_Witness ==
    /\ Len(networkRequests) = 2
    /\ Len(apiCalls) = 1
    /\ Len(externalSources) = 1
    /\ \E k \in 1..2 : /\ networkRequests[k].type = "external"
                       /\ networkRequests[k].req \in RequestsIn(externalSources)

====
